---- MODULE Spec2Model ----
(***************************************************************************)
(* Budget Level v2.1 (src/app.py): the ledger / balance derivation engine,  *)
(* the period life cycle with settlement, and the four-step period ritual   *)
(* (rollover) with its commit.  The Google Sheets worksheets are the        *)
(* sequences periods, transactions, wallet_log and settlement_log; a store  *)
(* call either is applied or raises (the ok flags drawn by the actions).    *)
(***************************************************************************)
EXTENDS Integers, Sequences, FiniteSets, TLC

\* ------------------------------------------------------------------ bounds
MaxIncomes == 1
MaxExpenses == 1
MaxQuickTransfers == 1
MaxPeriods == 2
MaxSettlements == 2
MaxFaults == 1
MaxWalletRows == 3
MaxLedgerRows == 2
MaxDialogLedger == 3
MaxDialogWallet == 2
MaxPerDialog == 1
MaxDay == 4

\* ------------------------------------------------- constants of src/app.py
ACCOUNT_LIVING == "Living"
ACCOUNT_SAVING == "Saving"
ACCOUNT_BACKUP == "Back_Up"
ACCOUNT_FREEFUND == "Free_Fund"
ACCOUNT_WALLET == "Wallet"

WALLET_INCOME == "Income"
WALLET_ALLOCATE_OUT == "Allocate_Out"
WALLET_TRANSFER_IN == "Transfer_In"
WALLET_ADJUSTMENT == "Adjustment"

TYPE_EXPENSE == "Expense"
TYPE_SAVING_IN == "Saving_In"
TYPE_SAVING_OUT == "Saving_Out"
TYPE_SETTLEMENT_IN == "Settlement_In"
TYPE_SETTLEMENT_OUT == "Settlement_Out"
TYPE_TRANSFER == "Transfer"

PERIOD_ACTIVE == "Active"
PERIOD_SETTLED == "Settled"

\* ------------------------------------------------ the sheet's master data
\* Category and Saving_Goal rows are edited in the spreadsheet itself; the
\* application only reads them (and writes Category.Budget at commit).
CategoryIds == {"c1"}
CategoryOrder == <<"c1">>
GoalIds == {"g1"}
GoalOrder == <<"g1">>

\* Period ids are "PER" + timestamp; the pool stands for successive stamps.
PeriodIdPool == <<"PER1", "PER2", "PER3", "PER4", "PER5", "PER6">>

\* Config sheet: Back_Up_Initial and Free_Fund_Initial
ConfigValues == [Back_Up_Initial |-> 0, Free_Fund_Initial |-> 0]

\* Texts a user may type into an amount field (sequences of characters):
\* nothing, something that is no number, a negative amount, an amount.
AmountTexts == { <<>>, <<"x">>, <<"-", "1">>, <<"1", ",">> }

\* Texts typed into the amount field of the expense dialog.
ExpenseTexts == { <<>>, <<"-", "1">>, <<"1">>, <<"2">> }

\* Texts typed into the budget and allocation fields of the ritual.
BudgetTexts == { <<>>, <<"1", ",">> }
SavingTexts == { <<>>, <<"1">> }
BackupTexts == { <<>>, <<"-", "1">>, <<"1">> }

\* End dates picked in step 2, in days after the start date ("一個月後").
EndDeltas == {30}

VARIABLES
  periods,         \* Period sheet: sequence of rows
  transactions,    \* Transaction sheet (the Ledger Log)
  wallet_log,      \* Wallet_Log sheet
  settlement_log,  \* Settlement_Log sheet
  categories,      \* Category sheet: id -> [Budget, Status]
  saving_goals,    \* Saving_Goal sheet: id -> [Status]
  config,          \* Config sheet: key -> value
  cache,           \* what load_all_data() returns while its entry is kept
  now,             \* get_taiwan_now(), in seconds
  log_ids,         \* the Log_ID / Transaction_ID column of the two logs
  today,           \* get_taiwan_today(), as a day number
  ritual_active,   \* st.session_state.ritual_active
  ritual_step,     \* st.session_state.ritual_step
  ritual_data,     \* st.session_state.ritual_data
  faults,          \* store calls that have raised so far
  last             \* what the last handler reported (return value / toast)

vars == <<periods, transactions, wallet_log, settlement_log, categories,
          saving_goals, config, cache, now, log_ids, today, ritual_active,
          ritual_step, ritual_data, faults, last>>

stores == <<periods, transactions, wallet_log, settlement_log, categories,
            saving_goals>>

\* the sheets as one run of load_all_data() reads them
Sheets ==
  [periods |-> periods, transactions |-> transactions,
   wallet_log |-> wallet_log, settlement_log |-> settlement_log,
   categories |-> categories, saving_goals |-> saving_goals]

SheetsNext ==
  [periods |-> periods', transactions |-> transactions',
   wallet_log |-> wallet_log', settlement_log |-> settlement_log',
   categories |-> categories', saving_goals |-> saving_goals']

\* load_all_data with its entry never dropped by the handlers
load_all_data_kept(cleared) == cache' = cache

\* @st.cache_data(ttl=60) on load_all_data: when the handler has called
\* st.cache_data.clear() the next call reads the sheets, otherwise it
\* returns the entry it kept.  (An entry older than the ttl is read again
\* as well, which only replaces it by the sheets.)  The handlers below read
\* the sheets themselves, which is what they get while cache = Sheets.
load_all_data(cleared) == cache' = IF cleared THEN SheetsNext ELSE cache

\* the initial balance taken as 0 whatever the Config sheet holds
config_initial_ignored(cfg, key) == 0

\* add_wallet_log and add_transaction make the id of a row from
\* get_taiwan_now() cut to the second.  The appends of one handler are taken
\* within the second the handler started in; the next handler that writes
\* starts in a later second.
Log_ID(second) == <<"WL", second>>
Transaction_ID(second) == <<"TXN", second>>

Stamp ==
  LET nw == Len(wallet_log') - Len(wallet_log)
      nt == Len(transactions') - Len(transactions)
  IN /\ log_ids' =
          [wallet_log |->
             log_ids.wallet_log \o [i \in 1..nw |-> Log_ID(now)],
           transactions |->
             log_ids.transactions \o [i \in 1..nt |-> Transaction_ID(now)]]
     /\ now' = IF nw + nt > 0 THEN now + 1 ELSE now

\* float(config.get(key, 0) or 0)
config_initial(cfg, key) == IF key \in DOMAIN cfg THEN cfg[key] ELSE 0

\* ------------------------------------------------------------- utilities
RECURSIVE SumAmount(_)
SumAmount(rows) ==
  IF rows = <<>> THEN 0 ELSE Head(rows).Amount + SumAmount(Tail(rows))

RECURSIVE SumOver(_, _)
SumOver(f, order) ==
  IF order = <<>> THEN 0
  ELSE (IF Head(order) \in DOMAIN f THEN f[Head(order)] ELSE 0)
       + SumOver(f, Tail(order))

EmptyMap == [x \in {} |-> 0]

DigitValue ==
  [c \in {"0", "1", "2", "3", "4", "5", "6", "7", "8", "9"} |->
     CASE c = "0" -> 0 [] c = "1" -> 1 [] c = "2" -> 2 [] c = "3" -> 3
       [] c = "4" -> 4 [] c = "5" -> 5 [] c = "6" -> 6 [] c = "7" -> 7
       [] c = "8" -> 8 [] c = "9" -> 9]

RECURSIVE DigitsToNat(_, _)
DigitsToNat(chars, acc) ==
  IF chars = <<>> THEN acc
  ELSE DigitsToNat(Tail(chars), 10 * acc + DigitValue[Head(chars)])

AllDigits(chars) ==
  /\ chars # <<>>
  /\ \A i \in 1..Len(chars) : chars[i] \in DOMAIN DigitValue

\* parse_amount: drop thousands separators and blanks, then float(); an
\* empty or unparsable text gives 0.
parse_amount(value) ==
  IF value = <<>> THEN 0
  ELSE LET cleaned == SelectSeq(value, LAMBDA c : c # "," /\ c # " ")
       IN IF AllDigits(cleaned) THEN DigitsToNat(cleaned, 0)
          ELSE IF cleaned # <<>> /\ Head(cleaned) = "-" /\ AllDigits(Tail(cleaned))
               THEN 0 - DigitsToNat(Tail(cleaned), 0)
          ELSE 0

\* ---------------------------------------------------- rows of the sheets
Txn(type, amount, account, category_id, goal_id, target_account, ref, period_id) ==
  [Type |-> type, Amount |-> amount, Account |-> account,
   Category_ID |-> category_id, Goal_ID |-> goal_id,
   Target_Account |-> target_account, Ref |-> ref, Period_ID |-> period_id]

WalletRow(log_type, amount, ref) ==
  [Type |-> log_type, Amount |-> amount, Ref |-> ref]

\* add_transaction / add_wallet_log: append the row, or leave the sheet as
\* it is when the store call raises (the function then returns False).
add_transaction(txns, row, ok) == IF ok THEN Append(txns, row) ELSE txns

add_wallet_log(wl, row, ok) == IF ok THEN Append(wl, row) ELSE wl

\* ------------------------------------------------------- balance engine
\* the wallet balance counting only the latest Adjustment row
get_wallet_balance_latest_adjustment(wl) ==
  LET income == SumAmount(SelectSeq(wl, LAMBDA r : r.Type = WALLET_INCOME))
      allocate_out == SumAmount(SelectSeq(wl, LAMBDA r : r.Type = WALLET_ALLOCATE_OUT))
      transfer_in == SumAmount(SelectSeq(wl, LAMBDA r : r.Type = WALLET_TRANSFER_IN))
      adjustments == SelectSeq(wl, LAMBDA r : r.Type = WALLET_ADJUSTMENT)
      adjustment == IF adjustments = <<>> THEN 0
                    ELSE adjustments[Len(adjustments)].Amount
  IN income - allocate_out + transfer_in + adjustment

\* the wallet balance without the Adjustment rows
get_wallet_balance_no_adjustment(wl) ==
  LET income == SumAmount(SelectSeq(wl, LAMBDA r : r.Type = WALLET_INCOME))
      allocate_out == SumAmount(SelectSeq(wl, LAMBDA r : r.Type = WALLET_ALLOCATE_OUT))
      transfer_in == SumAmount(SelectSeq(wl, LAMBDA r : r.Type = WALLET_TRANSFER_IN))
  IN income - allocate_out + transfer_in

get_wallet_balance(wl) ==
  LET income == SumAmount(SelectSeq(wl, LAMBDA r : r.Type = WALLET_INCOME))
      allocate_out == SumAmount(SelectSeq(wl, LAMBDA r : r.Type = WALLET_ALLOCATE_OUT))
      transfer_in == SumAmount(SelectSeq(wl, LAMBDA r : r.Type = WALLET_TRANSFER_IN))
      adjustment == SumAmount(SelectSeq(wl, LAMBDA r : r.Type = WALLET_ADJUSTMENT))
  IN income - allocate_out + transfer_in + adjustment

\* the Back_Up balance without the transfers out of Back_Up
get_backup_balance_no_transfer_out(txns) ==
  LET initial == config_initial(config, "Back_Up_Initial")
      settlement_out == SumAmount(SelectSeq(txns, LAMBDA r : r.Type = TYPE_SETTLEMENT_OUT))
      transfer_in == SumAmount(SelectSeq(txns, LAMBDA r :
                        r.Type = TYPE_TRANSFER /\ r.Target_Account = ACCOUNT_BACKUP))
  IN initial - settlement_out + transfer_in

get_backup_balance(txns) ==
  LET initial == config_initial(config, "Back_Up_Initial")
      settlement_out == SumAmount(SelectSeq(txns, LAMBDA r : r.Type = TYPE_SETTLEMENT_OUT))
      transfer_in == SumAmount(SelectSeq(txns, LAMBDA r :
                        r.Type = TYPE_TRANSFER /\ r.Target_Account = ACCOUNT_BACKUP))
      transfer_out == SumAmount(SelectSeq(txns, LAMBDA r :
                        r.Type = TYPE_TRANSFER /\ r.Account = ACCOUNT_BACKUP))
  IN initial - settlement_out + transfer_in - transfer_out

\* the Free_Fund balance without the transfers into Free_Fund
get_free_fund_balance_no_transfer_in(txns) ==
  LET initial == config_initial(config, "Free_Fund_Initial")
      settlement_in == SumAmount(SelectSeq(txns, LAMBDA r : r.Type = TYPE_SETTLEMENT_IN))
      transfer_out == SumAmount(SelectSeq(txns, LAMBDA r :
                        r.Type = TYPE_TRANSFER /\ r.Account = ACCOUNT_FREEFUND))
  IN initial + settlement_in - transfer_out

get_free_fund_balance(txns) ==
  LET initial == config_initial(config, "Free_Fund_Initial")
      settlement_in == SumAmount(SelectSeq(txns, LAMBDA r : r.Type = TYPE_SETTLEMENT_IN))
      transfer_in == SumAmount(SelectSeq(txns, LAMBDA r :
                        r.Type = TYPE_TRANSFER /\ r.Target_Account = ACCOUNT_FREEFUND))
      transfer_out == SumAmount(SelectSeq(txns, LAMBDA r :
                        r.Type = TYPE_TRANSFER /\ r.Account = ACCOUNT_FREEFUND))
  IN initial + settlement_in + transfer_in - transfer_out

get_saving_balance(txns, goal_id) ==
  LET saving_in == SumAmount(SelectSeq(txns, LAMBDA r :
                      r.Type = TYPE_SAVING_IN /\ r.Goal_ID = goal_id))
      saving_out == SumAmount(SelectSeq(txns, LAMBDA r :
                      r.Type = TYPE_SAVING_OUT /\ r.Goal_ID = goal_id))
      transfer_out == SumAmount(SelectSeq(txns, LAMBDA r :
                      r.Type = TYPE_TRANSFER /\ r.Account = ACCOUNT_SAVING
                      /\ r.Goal_ID = goal_id))
      transfer_in == SumAmount(SelectSeq(txns, LAMBDA r :
                      r.Type = TYPE_TRANSFER /\ r.Target_Account = ACCOUNT_SAVING
                      /\ r.Goal_ID = goal_id))
  IN saving_in - saving_out - transfer_out + transfer_in

\* index of the first Period row with this id, 0 when there is none
get_period_by_id(ps, period_id) ==
  LET match == {i \in 1..Len(ps) : ps[i].Period_ID = period_id}
  IN IF match = {} THEN 0
     ELSE CHOOSE i \in match : \A j \in match : i <= j

\* the first Active row instead of the last one
get_active_period_first(ps) ==
  LET active == {i \in 1..Len(ps) : ps[i].Status = PERIOD_ACTIVE}
  IN IF active = {} THEN 0
     ELSE CHOOSE i \in active : \A j \in active : i <= j

\* index of the last Period row whose Status is Active, 0 when there is none
get_active_period(ps) ==
  LET active == {i \in 1..Len(ps) : ps[i].Status = PERIOD_ACTIVE}
  IN IF active = {} THEN 0
     ELSE CHOOSE i \in active : \A j \in active : j <= i

LivingExpenses(txns, period_id) ==
  SelectSeq(txns, LAMBDA r : r.Type = TYPE_EXPENSE /\ r.Account = ACCOUNT_LIVING
                             /\ r.Period_ID = period_id)

\* the Living remainder counting the Living expenses of every period
get_living_remaining_any_period(ps, txns, period_id) ==
  LET period == get_period_by_id(ps, period_id)
  IN IF period = 0 THEN 0
     ELSE ps[period].Living_Budget
          - SumAmount(SelectSeq(txns, LAMBDA r : r.Type = TYPE_EXPENSE
                                  /\ r.Account = ACCOUNT_LIVING))

get_living_remaining(ps, txns, period_id) ==
  LET period == get_period_by_id(ps, period_id)
  IN IF period = 0 THEN 0
     ELSE ps[period].Living_Budget - SumAmount(LivingExpenses(txns, period_id))

\* the days left of the period never below one
get_period_days_left_at_least_one(period, td) ==
  LET days_left == (period.End_Date - td) + 1
  IN IF days_left > 1 THEN days_left ELSE 1

\* get_period_days_left: max((end_date - today).days + 1, 0)
get_period_days_left(period, td) ==
  LET days_left == (period.End_Date - td) + 1
  IN IF days_left > 0 THEN days_left ELSE 0

\* a quotient num / den, kept exact
Ratio(num, den) == [num |-> num, den |-> den]

\* get_daily_available: remaining / days_left, or remaining when no day is left
get_daily_available(ps, txns, period_id, td) ==
  LET remaining == get_living_remaining(ps, txns, period_id)
      period == get_period_by_id(ps, period_id)
  IN IF period = 0 THEN Ratio(0, 1)
     ELSE LET days_left == get_period_days_left(ps[period], td)
          IN IF days_left <= 0 THEN Ratio(remaining, 1)
             ELSE Ratio(remaining, days_left)

get_category_spent(txns, category_id, period_id) ==
  SumAmount(SelectSeq(txns, LAMBDA r : r.Type = TYPE_EXPENSE
                        /\ r.Category_ID = category_id /\ r.Period_ID = period_id))

\* -------------------------------------------------------- period manager
PeriodRow(period_id, start_date, end_date, living_budget) ==
  [Period_ID |-> period_id, Start_Date |-> start_date, End_Date |-> end_date,
   Status |-> PERIOD_ACTIVE, Living_Budget |-> living_budget, Settled_At |-> ""]

\* add_period: append an Active row; the result is [periods, period_id],
\* with period_id = "" when the store call raised.
add_period(ps, start_date, end_date, living_budget, ok) ==
  IF ok
  THEN [periods |-> Append(ps, PeriodRow(PeriodIdPool[Len(ps) + 1], start_date,
                                         end_date, living_budget)),
        period_id |-> PeriodIdPool[Len(ps) + 1]]
  ELSE [periods |-> ps, period_id |-> ""]

\* update_period_status: two cell updates on the first row with this id;
\* either of them may raise, which leaves the cells written so far.
update_period_status(ps, period_id, status, settled_at, okStatus, okSettledAt) ==
  LET i == get_period_by_id(ps, period_id)
  IN IF i = 0 THEN [periods |-> ps, result |-> FALSE]
     ELSE IF ~okStatus THEN [periods |-> ps, result |-> FALSE]
     ELSE LET ps1 == [ps EXCEPT ![i].Status = status]
          IN IF settled_at = "" THEN [periods |-> ps1, result |-> TRUE]
             ELSE IF ~okSettledAt THEN [periods |-> ps1, result |-> FALSE]
             ELSE [periods |-> [ps1 EXCEPT ![i].Settled_At = settled_at],
                   result |-> TRUE]

\* ------------------------------------------------------ settlement engine
SettlementRow(period_id, budget, total_expense, net_result, impact_account) ==
  [Period_ID |-> period_id, Planned_Budget |-> budget,
   Actual_Expense |-> total_expense, Net_Result |-> net_result,
   Impact_Account |-> impact_account]

\* settle_period without the test for a period that is already Settled
settle_rejected_unknown_only(ps, period_id) ==
  get_period_by_id(ps, period_id) = 0

\* the guard of settle_period: unknown period, or period already Settled
settle_rejected(ps, period_id) ==
  LET period == get_period_by_id(ps, period_id)
  IN \/ period = 0
     \/ ps[period].Status = PERIOD_SETTLED

\* settle_period.  ok = [txn, log, status, settled_at]: which of the store
\* calls go through.  The results of add_transaction and of
\* update_period_status are not looked at; only an exception raised in
\* settle_period itself (the Settlement_Log append) makes it report failure.
settle_period(ps, txns, slog, period_id, ok) ==
  IF settle_rejected(ps, period_id)
  THEN [periods |-> ps, transactions |-> txns, settlement_log |-> slog,
        success |-> FALSE, net_result |-> 0, calls |-> {}, cleared |-> FALSE]
  ELSE LET period == ps[get_period_by_id(ps, period_id)]
           budget == period.Living_Budget
           total_expense == SumAmount(LivingExpenses(txns, period_id))
           net_result == budget - total_expense
           txns1 ==
             IF net_result > 0
             THEN add_transaction(txns, Txn(TYPE_SETTLEMENT_IN, net_result,
                    ACCOUNT_FREEFUND, "", "", "", period_id, ""), ok.txn)
             ELSE IF net_result < 0
             THEN add_transaction(txns, Txn(TYPE_SETTLEMENT_OUT, 0 - net_result,
                    ACCOUNT_BACKUP, "", "", "", period_id, ""), ok.txn)
             ELSE txns
           impact_account ==
             IF net_result > 0 THEN ACCOUNT_FREEFUND
             ELSE IF net_result < 0 THEN ACCOUNT_BACKUP ELSE ""
       IN IF ~ok.log
          THEN [periods |-> ps, transactions |-> txns1, settlement_log |-> slog,
                success |-> FALSE, net_result |-> 0,
                calls |-> (IF net_result # 0 THEN {"txn"} ELSE {}) \cup {"log"},
                cleared |-> (net_result # 0 /\ ok.txn)]
          ELSE [periods |-> update_period_status(ps, period_id, PERIOD_SETTLED,
                              "ts", ok.status, ok.settled_at).periods,
                transactions |-> txns1,
                settlement_log |-> Append(slog, SettlementRow(period_id, budget,
                                      total_expense, net_result, impact_account)),
                success |-> TRUE, net_result |-> net_result,
                calls |-> (IF net_result # 0 THEN {"txn"} ELSE {})
                          \cup {"log", "status"}
                          \cup (IF ok.status THEN {"settled_at"} ELSE {}),
                cleared |-> TRUE]

\* which of the n store calls of one handler raise
FailSets(n) == SUBSET (1..n)

\* the store calls of settle_period that raise under ok
RaisedCalls(ok) == {c \in DOMAIN ok : ~ok[c]}

\* settle_period makes four store calls, in this order
SettleOutcomes ==
  [txn : BOOLEAN, log : BOOLEAN, status : BOOLEAN, settled_at : BOOLEAN]

CountRows(rows, type) == Len(SelectSeq(rows, LAMBDA r : r.Type = type))

\* ledger entries written by settlements (Ref = the period settled)
SettlementEntries(txns) ==
  SelectSeq(txns, LAMBDA r : r.Type \in {TYPE_SETTLEMENT_IN, TYPE_SETTLEMENT_OUT}
                             /\ r.Ref # "")

SettleRoom ==
  /\ Len(settlement_log) < MaxSettlements
  /\ Len(SettlementEntries(transactions)) < MaxSettlements

\* ------------------------------------------------- period ritual: pages
DigitChar == <<"0", "1", "2", "3", "4", "5", "6", "7", "8", "9">>

RECURSIVE NatToDigits(_)
NatToDigits(n) ==
  IF n < 10 THEN <<DigitChar[n + 1]>>
  ELSE NatToDigits(n \div 10) \o <<DigitChar[(n % 10) + 1]>>

Pad3(n) ==
  <<DigitChar[(n \div 100) + 1], DigitChar[((n \div 10) % 10) + 1],
    DigitChar[(n % 10) + 1]>>

\* f"{n:,.0f}" for a whole number n >= 0
RECURSIVE format_amount(_)
format_amount(n) ==
  IF n < 1000 THEN NatToDigits(n)
  ELSE format_amount(n \div 1000) \o <<",">> \o Pad3(n % 1000)

\* what a freshly created amount field holds for a stored value v, parsed:
\* value = f"{v:,.0f}" if v > 0 else ""
widget_default(v) ==
  IF v > 0 THEN parse_amount(format_amount(v)) ELSE parse_amount(<<>>)

EmptyData ==
  [keys |-> {}, start_date |-> 0, end_date |-> 0,
   category_budgets |-> EmptyMap, living_budget |-> 0,
   saving_allocations |-> EmptyMap, backup_allocation |-> 0,
   total_allocation |-> 0, wallet_remaining |-> 0]

MapGet(f, k) == IF k \in DOMAIN f THEN f[k] ELSE 0

ActiveCategories(cats) == {c \in DOMAIN cats : cats[c].Status = "Active"}

ActiveGoals(goals) == {g \in DOMAIN goals : goals[g].Status = "Active"}

\* step 2 keeping whatever end date is stored
render_ritual_step2_unchecked(data, start, end) ==
  [data EXCEPT !.keys = @ \cup {"start_date", "end_date"},
               !.start_date = start,
               !.end_date = end]

\* render_ritual_step2 with the date fields holding start and end:
\* an end date not after the start date is replaced by start + 30.
render_ritual_step2(data, start, end) ==
  [data EXCEPT !.keys = @ \cup {"start_date", "end_date"},
               !.start_date = start,
               !.end_date = IF end <= start THEN start + 30 ELSE end]

\* the dates step 2 shows when it is (re)drawn without a new input
Step2Start(data, td) == IF "start_date" \in data.keys THEN data.start_date ELSE td

Step2End(data, td) ==
  IF "end_date" \in data.keys THEN data.end_date ELSE Step2Start(data, td) + 30

\* render_ritual_step3 with the budget fields holding vals (category -> amount)
render_ritual_step3(data, cats, vals) ==
  IF ActiveCategories(cats) = {} THEN data
  ELSE LET old == data.category_budgets
           act == ActiveCategories(cats)
       IN [data EXCEPT
             !.keys = @ \cup {"category_budgets", "living_budget"},
             !.category_budgets =
                [c \in act \cup DOMAIN old |-> IF c \in act THEN vals[c] ELSE old[c]],
             !.living_budget = SumOver([c \in act |-> vals[c]], CategoryOrder)]

\* the budgets step 3 shows when it is entered: the stored ones, or the
\* Category sheet's Budget the first time
Step3Defaults(data, cats) ==
  [c \in ActiveCategories(cats) |->
     widget_default(IF "category_budgets" \in data.keys
                    THEN MapGet(data.category_budgets, c)
                    ELSE cats[c].Budget)]

Step3Current(data, cats) ==
  [c \in ActiveCategories(cats) |-> MapGet(data.category_budgets, c)]

\* render_ritual_step4 with the allocation fields holding savVals and bakVal
render_ritual_step4(data, wl, goals, savVals, bakVal) ==
  LET old == data.saving_allocations
      act == ActiveGoals(goals)
      living_budget == data.living_budget
      total_saving == SumOver([g \in act |-> savVals[g]], GoalOrder)
      total_allocation == living_budget + total_saving + bakVal
      wallet_remaining == get_wallet_balance(wl) - total_allocation
  IN [data EXCEPT
        !.keys = @ \cup {"saving_allocations", "backup_allocation",
                         "total_allocation", "wallet_remaining"},
        !.saving_allocations =
           [g \in act \cup DOMAIN old |-> IF g \in act THEN savVals[g] ELSE old[g]],
        !.backup_allocation = bakVal,
        !.total_allocation = total_allocation,
        !.wallet_remaining = wallet_remaining]

Step4Defaults(data, goals) ==
  [g \in ActiveGoals(goals) |-> widget_default(MapGet(data.saving_allocations, g))]

Step4Current(data, goals) ==
  [g \in ActiveGoals(goals) |-> MapGet(data.saving_allocations, g)]

\* the commit button enabled on the wallet alone
can_complete_wallet_only(wallet_remaining, living_budget) ==
  wallet_remaining >= 0

\* the commit button is enabled
can_complete(wallet_remaining, living_budget) ==
  wallet_remaining >= 0 /\ living_budget > 0

\* ------------------------------------------------- period ritual: commit
\* update_category(cat_id, {"Budget": budget})
update_category(cats, category_id, budget, ok) ==
  IF category_id \in DOMAIN cats /\ ok
  THEN [cats EXCEPT ![category_id].Budget = budget]
  ELSE cats

RECURSIVE SavingWrites(_, _, _)
SavingWrites(order, allocs, period_id) ==
  IF order = <<>> THEN <<>>
  ELSE LET g == Head(order)
           rest == SavingWrites(Tail(order), allocs, period_id)
       IN IF g \in DOMAIN allocs /\ allocs[g] > 0
          THEN << [kind |-> "wallet",
                   row |-> WalletRow(WALLET_ALLOCATE_OUT, allocs[g], g)],
                  [kind |-> "txn",
                   row |-> Txn(TYPE_SAVING_IN, allocs[g], ACCOUNT_SAVING, "", g,
                               "", "", period_id)] >> \o rest
          ELSE rest

RECURSIVE CategoryWrites(_, _)
CategoryWrites(order, budgets) ==
  IF order = <<>> THEN <<>>
  ELSE LET c == Head(order)
           rest == CategoryWrites(Tail(order), budgets)
       IN IF c \in DOMAIN budgets
          THEN << [kind |-> "cat", id |-> c, budget |-> budgets[c]] >> \o rest
          ELSE rest

\* the commit persisting the category budgets before the log appends
CommitWrites_categories_first(data, period_id) ==
  CategoryWrites(CategoryOrder, data.category_budgets)
  \o << [kind |-> "wallet",
         row |-> WalletRow(WALLET_ALLOCATE_OUT, data.living_budget, period_id)] >>
  \o SavingWrites(GoalOrder, data.saving_allocations, period_id)
  \o (IF data.backup_allocation > 0
      THEN << [kind |-> "wallet",
               row |-> WalletRow(WALLET_ALLOCATE_OUT, data.backup_allocation,
                                 "Back_Up")],
              [kind |-> "txn",
               row |-> Txn(TYPE_TRANSFER, data.backup_allocation, ACCOUNT_WALLET,
                           "", "", ACCOUNT_BACKUP, "", period_id)] >>
      ELSE <<>>)
  \o (IF data.wallet_remaining > 0
      THEN << [kind |-> "wallet",
               row |-> WalletRow(WALLET_ALLOCATE_OUT, data.wallet_remaining,
                                 period_id)],
              [kind |-> "txn",
               row |-> Txn(TYPE_SETTLEMENT_IN, data.wallet_remaining,
                           ACCOUNT_FREEFUND, "", "", "", "", period_id)] >>
      ELSE <<>>)

\* the store calls complete_ritual makes after add_period, in order
CommitWrites(data, period_id) ==
  << [kind |-> "wallet",
      row |-> WalletRow(WALLET_ALLOCATE_OUT, data.living_budget, period_id)] >>
  \o SavingWrites(GoalOrder, data.saving_allocations, period_id)
  \o (IF data.backup_allocation > 0
      THEN << [kind |-> "wallet",
               row |-> WalletRow(WALLET_ALLOCATE_OUT, data.backup_allocation,
                                 "Back_Up")],
              [kind |-> "txn",
               row |-> Txn(TYPE_TRANSFER, data.backup_allocation, ACCOUNT_WALLET,
                           "", "", ACCOUNT_BACKUP, "", period_id)] >>
      ELSE <<>>)
  \o (IF data.wallet_remaining > 0
      THEN << [kind |-> "wallet",
               row |-> WalletRow(WALLET_ALLOCATE_OUT, data.wallet_remaining,
                                 period_id)],
              [kind |-> "txn",
               row |-> Txn(TYPE_SETTLEMENT_IN, data.wallet_remaining,
                           ACCOUNT_FREEFUND, "", "", "", "", period_id)] >>
      ELSE <<>>)
  \o CategoryWrites(CategoryOrder, data.category_budgets)

\* the k-th store call of the commit raises iff k \in fail; each of
\* add_wallet_log, add_transaction and update_category catches its own
\* exception, and complete_ritual goes on to the next call.
RECURSIVE apply_writes(_, _, _, _)
apply_writes(ws, k, st, fail) ==
  IF ws = <<>> THEN st
  ELSE LET w == Head(ws)
           ok == k \notin fail
           st1 == IF w.kind = "wallet"
                  THEN [st EXCEPT !.wallet_log = add_wallet_log(@, w.row, ok)]
                  ELSE IF w.kind = "txn"
                  THEN [st EXCEPT !.transactions = add_transaction(@, w.row, ok)]
                  ELSE [st EXCEPT !.categories = update_category(@, w.id, w.budget, ok)]
       IN apply_writes(Tail(ws), k + 1, st1, fail)

\* complete_ritual going on with its writes after a failed add_period
complete_ritual_period_unchecked(data, ps, wl, txns, cats, fail) ==
  IF ~({"start_date", "end_date", "living_budget"} \subseteq data.keys)
  THEN [periods |-> ps, wallet_log |-> wl, transactions |-> txns,
        categories |-> cats, completed |-> FALSE, period_id |-> "",
        calls |-> <<>>]
  ELSE LET ap == add_period(ps, data.start_date, data.end_date,
                            data.living_budget, 1 \notin fail)
           st == apply_writes(CommitWrites(data, ap.period_id), 2,
                    [wallet_log |-> wl, transactions |-> txns,
                     categories |-> cats], fail)
       IN [periods |-> ap.periods, wallet_log |-> st.wallet_log,
           transactions |-> st.transactions, categories |-> st.categories,
           completed |-> ap.period_id # "", period_id |-> ap.period_id,
           calls |-> IF ap.period_id = "" THEN << [kind |-> "period"] >>
                     ELSE << [kind |-> "period"] >>
                            \o CommitWrites(data, ap.period_id)
                            \o << [kind |-> "end_ritual"] >>]

\* complete_ritual: only a failed add_period stops it (store call 1).
\* calls lists, in order, what the handler called: add_period, the writes
\* of CommitWrites, end_ritual.
complete_ritual(data, ps, wl, txns, cats, fail) ==
  IF ~({"start_date", "end_date", "living_budget"} \subseteq data.keys)
  THEN [periods |-> ps, wallet_log |-> wl, transactions |-> txns,
        categories |-> cats, completed |-> FALSE, period_id |-> "",
        calls |-> <<>>]
  ELSE LET ap == add_period(ps, data.start_date, data.end_date,
                            data.living_budget, 1 \notin fail)
       IN IF ap.period_id = ""
          THEN [periods |-> ps, wallet_log |-> wl, transactions |-> txns,
                categories |-> cats, completed |-> FALSE, period_id |-> "",
                calls |-> << [kind |-> "period"] >>]
          ELSE LET st == apply_writes(CommitWrites(data, ap.period_id), 2,
                           [wallet_log |-> wl, transactions |-> txns,
                            categories |-> cats], fail)
               IN [periods |-> ap.periods, wallet_log |-> st.wallet_log,
                   transactions |-> st.transactions, categories |-> st.categories,
                   completed |-> TRUE, period_id |-> ap.period_id,
                   calls |-> << [kind |-> "period"] >>
                             \o CommitWrites(data, ap.period_id)
                             \o << [kind |-> "end_ritual"] >>]

\* ------------------------------------------------------------ the system
Report(op, success, pid) ==
  [op |-> op, success |-> success, pid |-> pid, calls |-> <<>>]

Init ==
  /\ periods = <<>>
  /\ transactions = <<>>
  /\ wallet_log = <<>>
  /\ settlement_log = <<>>
  /\ categories \in [CategoryIds -> [Budget : {0}, Status : {"Active", "Inactive"}]]
  /\ saving_goals = [g \in GoalIds |-> [Status |-> "Active"]]
  /\ config = ConfigValues
  /\ cache = Sheets
  /\ now = Len(wallet_log) + Len(transactions)
  /\ log_ids = [wallet_log |-> [i \in 1..Len(wallet_log) |-> Log_ID(i - 1)],
                transactions |->
                  [i \in 1..Len(transactions) |->
                     Transaction_ID(Len(wallet_log) + i - 1)]]
  /\ today = 0
  /\ ritual_active = FALSE
  /\ ritual_step = 1
  /\ ritual_data = EmptyData
  /\ faults = 0
  /\ last = Report("other", TRUE, "")

\* n more store calls raise
Raise(n) ==
  /\ faults + n <= MaxFaults
  /\ faults' = faults + n

\* dialog_income: "確認入帳"
Income(text, ok) ==
  /\ ~ritual_active
  /\ CountRows(wallet_log, WALLET_INCOME) < MaxIncomes
  /\ LET amount == parse_amount(text)
     IN IF amount <= 0
        THEN /\ ok
             /\ wallet_log' = wallet_log
             /\ last' = Report("other", TRUE, "")
        ELSE /\ wallet_log' = add_wallet_log(wallet_log,
                                 WalletRow(WALLET_INCOME, amount, ""), ok)
             /\ last' = Report("other", TRUE, "")
  /\ Raise(IF ok THEN 0 ELSE 1)
  /\ UNCHANGED <<periods, transactions, settlement_log, categories, saving_goals,
                 config, today, ritual_active, ritual_step, ritual_data>>
  /\ load_all_data(parse_amount(text) > 0 /\ ok)
  /\ Stamp

\* quick_expense_dialog: "記錄支出"
Expense(category_id, text, ok) ==
  /\ category_id \in ActiveCategories(categories)
  /\ CountRows(transactions, TYPE_EXPENSE) < MaxExpenses
  /\ LET amount == parse_amount(text)
         period == get_active_period(periods)
     IN IF amount <= 0 \/ period = 0
        THEN /\ ok
             /\ transactions' = transactions
             /\ last' = Report("other", TRUE, "")
        ELSE /\ transactions' = add_transaction(transactions,
                  Txn(TYPE_EXPENSE, amount, ACCOUNT_LIVING, category_id, "", "",
                      "", periods[period].Period_ID), ok)
             /\ last' = Report("other", TRUE, "")
  /\ Raise(IF ok THEN 0 ELSE 1)
  /\ UNCHANGED <<periods, wallet_log, settlement_log, categories, saving_goals,
                 config, today, ritual_active, ritual_step, ritual_data>>
  /\ load_all_data(parse_amount(text) > 0 /\ get_active_period(periods) # 0 /\ ok)
  /\ Stamp

\* settle_period(period_id), called on its own
SettleCall(period_id, ok) ==
  /\ ~ritual_active
  /\ SettleRoom
  /\ LET r == settle_period(periods, transactions, settlement_log, period_id, ok)
     IN /\ RaisedCalls(ok) \subseteq r.calls
        /\ periods' = r.periods
        /\ transactions' = r.transactions
        /\ settlement_log' = r.settlement_log
        /\ last' = Report("settle", r.success, period_id)
        /\ UNCHANGED <<wallet_log, categories, saving_goals>>
        /\ load_all_data(r.cleared)
  /\ Raise(Cardinality(RaisedCalls(ok)))
  /\ UNCHANGED <<config, today, ritual_active, ritual_step, ritual_data>>
  /\ Stamp

\* start_ritual: "開始新週期"
StartRitual ==
  /\ ~ritual_active
  /\ ritual_active' = TRUE
  /\ ritual_step' = 1
  /\ ritual_data' = EmptyData
  /\ last' = Report("other", TRUE, "")
  /\ UNCHANGED <<stores, cache, now, log_ids, config, today, faults>>

\* end_ritual from step 1: "取消儀式"
CancelRitual ==
  /\ ritual_active /\ ritual_step = 1
  /\ ritual_active' = FALSE
  /\ ritual_step' = 1
  /\ ritual_data' = EmptyData
  /\ last' = Report("other", TRUE, "")
  /\ UNCHANGED <<stores, cache, now, log_ids, config, today, faults>>

\* render_ritual_step1 without an Active period: "下一步"
Step1Skip ==
  /\ ritual_active /\ ritual_step = 1
  /\ get_active_period(periods) = 0
  /\ ritual_step' = 2
  /\ ritual_data' = render_ritual_step2(ritual_data, Step2Start(ritual_data, today),
                                        Step2End(ritual_data, today))
  /\ last' = Report("other", TRUE, "")
  /\ UNCHANGED <<stores, cache, now, log_ids, config, today, ritual_active, faults>>

\* render_ritual_step1 with an Active period: "確認結算，下一步"
Step1Settle(ok) ==
  /\ ritual_active /\ ritual_step = 1
  /\ get_active_period(periods) # 0
  /\ SettleRoom
  /\ LET period_id == periods[get_active_period(periods)].Period_ID
         r == settle_period(periods, transactions, settlement_log, period_id, ok)
     IN /\ RaisedCalls(ok) \subseteq r.calls
        /\ periods' = r.periods
        /\ transactions' = r.transactions
        /\ settlement_log' = r.settlement_log
        /\ last' = Report("settle", r.success, period_id)
        /\ UNCHANGED <<wallet_log, categories, saving_goals>>
        /\ load_all_data(r.cleared)
        /\ IF r.success
           THEN /\ ritual_step' = 2
                /\ ritual_data' = render_ritual_step2(ritual_data,
                                     Step2Start(ritual_data, today),
                                     Step2End(ritual_data, today))
           ELSE UNCHANGED <<ritual_step, ritual_data>>
  /\ Raise(Cardinality(RaisedCalls(ok)))
  /\ UNCHANGED <<config, today, ritual_active>>
  /\ Stamp

\* render_ritual_step2: a quick pick of the end date
Step2Input(delta) ==
  /\ ritual_active /\ ritual_step = 2
  /\ ritual_data' = render_ritual_step2(ritual_data, Step2Start(ritual_data, today),
                                        Step2Start(ritual_data, today) + delta)
  /\ last' = Report("other", TRUE, "")
  /\ UNCHANGED <<stores, cache, now, log_ids, config, today, ritual_active, ritual_step, faults>>

Step2Back ==
  /\ ritual_active /\ ritual_step = 2
  /\ ritual_step' = 1
  /\ last' = Report("other", TRUE, "")
  /\ UNCHANGED <<stores, cache, now, log_ids, config, today, ritual_active, ritual_data, faults>>

Step2Next ==
  /\ ritual_active /\ ritual_step = 2
  /\ ritual_step' = 3
  /\ ritual_data' = render_ritual_step3(ritual_data, categories,
                                        Step3Defaults(ritual_data, categories))
  /\ last' = Report("other", TRUE, "")
  /\ UNCHANGED <<stores, cache, now, log_ids, config, today, ritual_active, faults>>

\* step 3 saving each typed budget to the Category sheet at once
Step3Input_persisting(texts) ==
  /\ ritual_active /\ ritual_step = 3
  /\ ActiveCategories(categories) # {}
  /\ ritual_data' = render_ritual_step3(ritual_data, categories,
                       [c \in ActiveCategories(categories) |-> parse_amount(texts[c])])
  /\ categories' = [c \in DOMAIN categories |->
                      IF c \in ActiveCategories(categories)
                      THEN [categories[c] EXCEPT !.Budget = parse_amount(texts[c])]
                      ELSE categories[c]]
  /\ last' = Report("other", TRUE, "")
  /\ UNCHANGED <<periods, transactions, wallet_log, settlement_log, saving_goals,
                 config, today, ritual_active, ritual_step, faults>>
  /\ load_all_data(TRUE)
  /\ Stamp

\* render_ritual_step3: budgets typed into the fields
Step3Input(texts) ==
  /\ ritual_active /\ ritual_step = 3
  /\ ActiveCategories(categories) # {}
  /\ ritual_data' = render_ritual_step3(ritual_data, categories,
                       [c \in ActiveCategories(categories) |-> parse_amount(texts[c])])
  /\ last' = Report("other", TRUE, "")
  /\ UNCHANGED <<stores, cache, now, log_ids, config, today, ritual_active, ritual_step, faults>>

Step3Back ==
  /\ ritual_active /\ ritual_step = 3
  /\ ritual_step' = 2
  /\ ritual_data' = render_ritual_step2(ritual_data, Step2Start(ritual_data, today),
                                        Step2End(ritual_data, today))
  /\ last' = Report("other", TRUE, "")
  /\ UNCHANGED <<stores, cache, now, log_ids, config, today, ritual_active, faults>>

\* "下一步" of step 3, enabled while the budget total is positive
Step3Next ==
  /\ ritual_active /\ ritual_step = 3
  /\ ActiveCategories(categories) # {}
  /\ LET d == render_ritual_step3(ritual_data, categories,
                                  Step3Current(ritual_data, categories))
     IN /\ d.living_budget > 0
        /\ ritual_data' = render_ritual_step4(d, wallet_log, saving_goals,
                             Step4Defaults(d, saving_goals),
                             widget_default(d.backup_allocation))
  /\ ritual_step' = 4
  /\ last' = Report("other", TRUE, "")
  /\ UNCHANGED <<stores, cache, now, log_ids, config, today, ritual_active, faults>>

\* "跳過，下一步" of step 3 when there is no (active) category
Step3Skip ==
  /\ ritual_active /\ ritual_step = 3
  /\ ActiveCategories(categories) = {}
  /\ LET d == [ritual_data EXCEPT
                 !.keys = @ \cup {"category_budgets", "living_budget"},
                 !.category_budgets = EmptyMap,
                 !.living_budget = 0]
     IN ritual_data' = render_ritual_step4(d, wallet_log, saving_goals,
                          Step4Defaults(d, saving_goals),
                          widget_default(d.backup_allocation))
  /\ ritual_step' = 4
  /\ last' = Report("other", TRUE, "")
  /\ UNCHANGED <<stores, cache, now, log_ids, config, today, ritual_active, faults>>

\* render_ritual_step4: allocations typed into the fields
Step4Input(savTexts, bakText) ==
  /\ ritual_active /\ ritual_step = 4
  /\ ritual_data' = render_ritual_step4(ritual_data, wallet_log, saving_goals,
                       [g \in ActiveGoals(saving_goals) |-> parse_amount(savTexts[g])],
                       parse_amount(bakText))
  /\ last' = Report("other", TRUE, "")
  /\ UNCHANGED <<stores, cache, now, log_ids, config, today, ritual_active, ritual_step, faults>>

Step4Back ==
  /\ ritual_active /\ ritual_step = 4
  /\ LET d == render_ritual_step4(ritual_data, wallet_log, saving_goals,
                 Step4Current(ritual_data, saving_goals),
                 ritual_data.backup_allocation)
     IN ritual_data' = render_ritual_step3(d, categories, Step3Defaults(d, categories))
  /\ ritual_step' = 3
  /\ last' = Report("other", TRUE, "")
  /\ UNCHANGED <<stores, cache, now, log_ids, config, today, ritual_active, faults>>

\* "轉帳到錢包" of step 4: Transfer source -> Wallet, then Transfer_In
Step4QuickTransfer(source_account, text, okTxn, okWallet) ==
  /\ ritual_active /\ ritual_step = 4
  /\ CountRows(transactions, TYPE_TRANSFER) < MaxQuickTransfers
  /\ CountRows(wallet_log, WALLET_TRANSFER_IN) < MaxQuickTransfers
  /\ LET transfer_amount == parse_amount(text)
     IN IF transfer_amount <= 0
        THEN /\ okTxn /\ okWallet
             /\ UNCHANGED <<transactions, wallet_log>>
             /\ last' = Report("other", TRUE, "")
        ELSE /\ transactions' = add_transaction(transactions,
                  Txn(TYPE_TRANSFER, transfer_amount, source_account, "", "",
                      ACCOUNT_WALLET, "", ""), okTxn)
             /\ wallet_log' = add_wallet_log(wallet_log,
                  WalletRow(WALLET_TRANSFER_IN, transfer_amount, ""), okWallet)
             /\ last' = Report("other", TRUE, "")
  /\ Raise((IF okTxn THEN 0 ELSE 1) + (IF okWallet THEN 0 ELSE 1))
  /\ ritual_data' = render_ritual_step4(ritual_data, wallet_log', saving_goals,
                       Step4Current(ritual_data, saving_goals),
                       ritual_data.backup_allocation)
  /\ UNCHANGED <<periods, settlement_log, categories, saving_goals, config, today,
                 ritual_active, ritual_step>>
  /\ load_all_data(parse_amount(text) > 0)
  /\ Stamp

\* "完成儀式" of step 4: complete_ritual, offered only when can_complete
Step4Commit ==
  /\ ritual_active /\ ritual_step = 4
  /\ Len(periods) < MaxPeriods
  /\ LET d == render_ritual_step4(ritual_data, wallet_log, saving_goals,
                 Step4Current(ritual_data, saving_goals),
                 ritual_data.backup_allocation)
         ws == CommitWrites(d, "")
     IN /\ can_complete(d.wallet_remaining, d.living_budget)
        /\ \E fail \in FailSets(1 + Len(ws)) :
           LET r == complete_ritual(d, periods, wallet_log, transactions,
                                    categories, fail)
           IN /\ (1 \in fail => fail = {1})
              /\ Raise(Cardinality(fail))
              /\ periods' = r.periods
              /\ wallet_log' = r.wallet_log
              /\ transactions' = r.transactions
              /\ categories' = r.categories
              /\ last' = [Report("commit", r.completed, r.period_id)
                            EXCEPT !.calls = r.calls]
              /\ IF r.completed
                 THEN /\ ritual_active' = FALSE
                      /\ ritual_step' = 1
                      /\ ritual_data' = EmptyData
                 ELSE /\ ritual_data' = d
                      /\ UNCHANGED <<ritual_active, ritual_step>>
              /\ UNCHANGED <<settlement_log, saving_goals>>
              /\ load_all_data(r.completed)
  /\ UNCHANGED <<config, today>>
  /\ Stamp

KnownPeriodIds == {PeriodIdPool[i] : i \in 1..(MaxPeriods + 1)}

Next ==
  \/ \E text \in AmountTexts, ok \in BOOLEAN : Income(text, ok)
  \/ \E c \in CategoryIds, text \in ExpenseTexts, ok \in BOOLEAN : Expense(c, text, ok)
  \/ \E pid \in KnownPeriodIds, ok \in SettleOutcomes : SettleCall(pid, ok)
  \/ StartRitual
  \/ CancelRitual
  \/ Step1Skip
  \/ \E ok \in SettleOutcomes : Step1Settle(ok)
  \/ \E delta \in EndDeltas : Step2Input(delta)
  \/ Step2Back
  \/ Step2Next
  \/ \E texts \in [CategoryIds -> BudgetTexts] : Step3Input(texts)
  \/ Step3Back
  \/ Step3Next
  \/ Step3Skip
  \/ \E savTexts \in [GoalIds -> SavingTexts], bakText \in BackupTexts :
        Step4Input(savTexts, bakText)
  \/ Step4Back
  \/ \E src \in {ACCOUNT_FREEFUND, ACCOUNT_BACKUP}, text \in AmountTexts,
        okTxn \in BOOLEAN, okWallet \in BOOLEAN :
        Step4QuickTransfer(src, text, okTxn, okWallet)
  \/ Step4Commit

Spec == Init /\ [][Next]_vars

\* ------------------------------------------------ balance engine on logs
\* Rows the handlers write to the Wallet_Log sheet.
WalletRowSamples ==
  { WalletRow(WALLET_INCOME, 2, ""),
    WalletRow(WALLET_ALLOCATE_OUT, 1, "PER1"),
    WalletRow(WALLET_TRANSFER_IN, 1, ""),
    WalletRow(WALLET_ADJUSTMENT, 0 - 1, ""),
    WalletRow(WALLET_ADJUSTMENT, 2, "") }

\* Rows the handlers write to the Transaction sheet (an earlier period's
\* expense among them), and an Expense row typed into the sheet on another
\* account.
LedgerRowSamples ==
  { Txn(TYPE_EXPENSE, 1, ACCOUNT_LIVING, "c1", "", "", "", "PER1"),
    Txn(TYPE_EXPENSE, 3, ACCOUNT_LIVING, "c1", "", "", "", "PER1"),
    Txn(TYPE_EXPENSE, 2, ACCOUNT_LIVING, "c1", "", "", "", "PER0"),
    Txn(TYPE_EXPENSE, 1, ACCOUNT_FREEFUND, "c1", "", "", "", "PER1"),
    Txn(TYPE_SAVING_IN, 2, ACCOUNT_SAVING, "", "g1", "", "", ""),
    Txn(TYPE_SAVING_OUT, 1, ACCOUNT_SAVING, "", "g1", "", "", ""),
    Txn(TYPE_SETTLEMENT_IN, 1, ACCOUNT_FREEFUND, "", "", "", "PER1", ""),
    Txn(TYPE_SETTLEMENT_OUT, 2, ACCOUNT_BACKUP, "", "", "", "PER1", ""),
    Txn(TYPE_TRANSFER, 1, ACCOUNT_FREEFUND, "", "", ACCOUNT_WALLET, "", ""),
    Txn(TYPE_TRANSFER, 2, ACCOUNT_WALLET, "", "", ACCOUNT_BACKUP, "", "PER1"),
    Txn(TYPE_TRANSFER, 1, ACCOUNT_BACKUP, "", "", ACCOUNT_FREEFUND, "", ""),
    Txn(TYPE_TRANSFER, 2, ACCOUNT_FREEFUND, "", "g1", ACCOUNT_SAVING, "", ""),
    Txn(TYPE_TRANSFER, 1, ACCOUNT_SAVING, "", "g1", ACCOUNT_BACKUP, "", "") }

SeqsUpTo(S, n) == UNION {[1..k -> S] : k \in 0..n}

\* every derivation of the balance engine on the given sheets
Derivations(ps, wl, txns) ==
  [wallet |-> get_wallet_balance(wl),
   backup |-> get_backup_balance(txns),
   free_fund |-> get_free_fund_balance(txns),
   living |-> get_living_remaining(ps, txns, "PER1"),
   category |-> get_category_spent(txns, "c1", "PER1"),
   saving |-> get_saving_balance(txns, "g1")]

\* the sheets as they may stand when the expense tab is drawn
InitBalance ==
  /\ periods = << PeriodRow("PER1", 0, 30, 2) >>
  /\ wallet_log \in SeqsUpTo(WalletRowSamples, MaxWalletRows)
  /\ transactions \in SeqsUpTo(LedgerRowSamples, MaxLedgerRows)
  /\ settlement_log = <<>>
  /\ categories = [c \in CategoryIds |-> [Budget |-> 2, Status |-> "Active"]]
  /\ saving_goals = [g \in GoalIds |-> [Status |-> "Active"]]
  /\ config = ConfigValues
  /\ cache = Sheets
  /\ now = Len(wallet_log) + Len(transactions)
  /\ log_ids = [wallet_log |-> [i \in 1..Len(wallet_log) |-> Log_ID(i - 1)],
                transactions |->
                  [i \in 1..Len(transactions) |->
                     Transaction_ID(Len(wallet_log) + i - 1)]]
  /\ today = 0
  /\ ritual_active = FALSE
  /\ ritual_step = 1
  /\ ritual_data = EmptyData
  /\ faults = 0
  /\ last = Report("other", TRUE, "")

\* tab_expense: the balances shown at the top of the page
RenderBalances ==
  /\ last' = [op |-> "render", success |-> TRUE, pid |-> "PER1", calls |-> <<>>,
              shown |-> Derivations(periods, wallet_log, transactions)]
  /\ UNCHANGED <<stores, cache, now, log_ids, config, today, ritual_active, ritual_step, ritual_data, faults>>

SwapRows(rows, i) ==
  [k \in 1..Len(rows) |-> IF k = i THEN rows[i + 1]
                          ELSE IF k = i + 1 THEN rows[i] ELSE rows[k]]

\* the rows of a sheet come back in another order
ReorderWallet(i) ==
  /\ i < Len(wallet_log)
  /\ wallet_log' = SwapRows(wallet_log, i)
  /\ last' = Report("reorder", TRUE, "")
  /\ UNCHANGED <<periods, transactions, settlement_log, categories, saving_goals,
                 config, today, ritual_active, ritual_step, ritual_data, faults>>
  /\ load_all_data(TRUE)
  /\ Stamp

ReorderLedger(i) ==
  /\ i < Len(transactions)
  /\ transactions' = SwapRows(transactions, i)
  /\ last' = Report("reorder", TRUE, "")
  /\ UNCHANGED <<periods, wallet_log, settlement_log, categories, saving_goals,
                 config, today, ritual_active, ritual_step, ritual_data, faults>>
  /\ load_all_data(TRUE)
  /\ Stamp

NextBalance ==
  \/ RenderBalances
  \/ \E i \in 1..MaxWalletRows : ReorderWallet(i)
  \/ \E i \in 1..MaxLedgerRows : ReorderLedger(i)

SpecBalance == InitBalance /\ [][NextBalance]_vars

\* -------------------------------------------- the ritual and its dates
\* Start dates picked in step 2, in days before today (max_value = today).
StartOffsets == {0, 7}

\* The quick picks of the end date: "一週後", "一個月後".
QuickDeltas == {7, 30}

\* Budget texts of step 3, a negative one among them.
SignedBudgetTexts == { <<>>, <<"-", "1">>, <<"1", ",">> }

\* render_ritual_step2: another start date is picked
Step2PickStart(offset) ==
  /\ ritual_active /\ ritual_step = 2
  /\ today - offset # Step2Start(ritual_data, today)
  /\ ritual_data' = render_ritual_step2(ritual_data, today - offset,
                                        Step2End(ritual_data, today))
  /\ last' = Report("other", TRUE, "")
  /\ UNCHANGED <<stores, cache, now, log_ids, config, today, ritual_active, ritual_step, faults>>

NextPeriods ==
  \/ \E text \in AmountTexts, ok \in BOOLEAN : Income(text, ok)
  \/ StartRitual
  \/ CancelRitual
  \/ Step1Skip
  \/ \E ok \in SettleOutcomes : Step1Settle(ok)
  \/ \E offset \in StartOffsets : Step2PickStart(offset)
  \/ \E delta \in QuickDeltas : Step2Input(delta)
  \/ Step2Back
  \/ Step2Next
  \/ \E texts \in [CategoryIds -> SignedBudgetTexts] : Step3Input(texts)
  \/ Step3Back
  \/ Step3Next
  \/ Step3Skip
  \/ Step4Commit

SpecPeriods == Init /\ [][NextPeriods]_vars

\* ------------------------------------ the settlement preview of step 1
\* render_ritual_step1 with an Active period: the budget, the spending
\* summed over the Active categories, and the projected net
settlement_preview(ps, txns, cats, period_id) ==
  LET budget == ps[get_period_by_id(ps, period_id)].Living_Budget
      total_spent == SumOver([c \in ActiveCategories(cats) |->
                                get_category_spent(txns, c, period_id)],
                             CategoryOrder)
  IN [budget |-> budget, spent |-> total_spent,
      net_result |-> budget - total_spent]

\* The Status column of a Category row is changed in the spreadsheet; the
\* application reads the new value with its next load_all_data().
EditCategoryStatus(c, status) ==
  /\ categories[c].Status # status
  /\ categories' = [categories EXCEPT ![c].Status = status]
  /\ UNCHANGED <<periods, transactions, wallet_log, settlement_log, saving_goals,
                 config, today, ritual_active, ritual_step, ritual_data, faults,
                 last>>
  /\ load_all_data(TRUE)
  /\ Stamp

NextPreview ==
  \/ \E text \in AmountTexts, ok \in BOOLEAN : Income(text, ok)
  \/ \E c \in CategoryIds, text \in ExpenseTexts, ok \in BOOLEAN : Expense(c, text, ok)
  \/ \E c \in CategoryIds, status \in {"Active", "Inactive"} :
        EditCategoryStatus(c, status)
  \/ StartRitual
  \/ CancelRitual
  \/ Step1Skip
  \/ \E ok \in SettleOutcomes : Step1Settle(ok)
  \/ Step2Next
  \/ \E texts \in [CategoryIds -> BudgetTexts] : Step3Input(texts)
  \/ Step3Next
  \/ Step3Skip
  \/ Step4Commit

SpecPreview == Init /\ [][NextPreview]_vars

\* ------------------------------------------- the expense tab day by day
\* Config sheets: no row at all, both initial balances, one of them only.
ConfigSamples ==
  { EmptyMap,
    [Back_Up_Initial |-> 3, Free_Fund_Initial |-> 2],
    [Free_Fund_Initial |-> 1] }

\* Expense rows of the period shown.
DailyLedgerSamples ==
  { Txn(TYPE_EXPENSE, 1, ACCOUNT_LIVING, "c1", "", "", "", "PER1"),
    Txn(TYPE_EXPENSE, 3, ACCOUNT_LIVING, "c1", "", "", "", "PER1") }

\* what the tab derives for period_id on day td
DailyView(ps, wl, txns, period_id, td) ==
  LET period == get_period_by_id(ps, period_id)
  IN [known |-> period # 0,
      days_left |-> IF period = 0 THEN 0 ELSE get_period_days_left(ps[period], td),
      living |-> get_living_remaining(ps, txns, period_id),
      daily |-> get_daily_available(ps, txns, period_id, td),
      wallet |-> get_wallet_balance(wl),
      backup |-> get_backup_balance(txns),
      free_fund |-> get_free_fund_balance(txns),
      category |-> get_category_spent(txns, "c1", period_id),
      saving |-> get_saving_balance(txns, "g1")]

\* the sheets on some day of period PER1 (days 0 to 2) or after it
InitDaily ==
  /\ periods = << PeriodRow("PER1", 0, 2, 3) >>
  /\ wallet_log \in SeqsUpTo({WalletRow(WALLET_INCOME, 2, "")}, 1)
  /\ transactions \in SeqsUpTo(DailyLedgerSamples, MaxLedgerRows)
  /\ settlement_log = <<>>
  /\ categories = [c \in CategoryIds |-> [Budget |-> 3, Status |-> "Active"]]
  /\ saving_goals = [g \in GoalIds |-> [Status |-> "Active"]]
  /\ config \in ConfigSamples
  /\ cache = Sheets
  /\ now = Len(wallet_log) + Len(transactions)
  /\ log_ids = [wallet_log |-> [i \in 1..Len(wallet_log) |-> Log_ID(i - 1)],
                transactions |->
                  [i \in 1..Len(transactions) |->
                     Transaction_ID(Len(wallet_log) + i - 1)]]
  /\ today \in 0..MaxDay
  /\ ritual_active = FALSE
  /\ ritual_step = 1
  /\ ritual_data = EmptyData
  /\ faults = 0
  /\ last = Report("other", TRUE, "")

\* tab_expense derives the figures of period_id
RenderDaily(period_id) ==
  /\ last' = [op |-> "daily", success |-> TRUE, pid |-> period_id, calls |-> <<>>,
              shown |-> DailyView(periods, wallet_log, transactions, period_id,
                                  today)]
  /\ UNCHANGED <<stores, cache, now, log_ids, config, today, ritual_active, ritual_step,
                 ritual_data, faults>>

NextDaily == \E period_id \in {"PER1", "PER9"} : RenderDaily(period_id)

SpecDaily == InitDaily /\ [][NextDaily]_vars

\* ------------------------------------------------- dialogs of the tabs
\* Texts typed into the amount fields of the dialogs.
DialogTexts == { <<>>, <<"-", "1">>, <<"1">> }
DepositTexts == { <<>>, <<"2">> }
CompleteTexts == { <<>>, <<"1">>, <<"2">>, <<"3">> }

\* Saving goals of the Saving_Goal sheet while the dialogs are used.
DialogGoalIds == {"g1", "g2"}

\* Config sheet with an initial Free_Fund balance
DialogConfig == [Back_Up_Initial |-> 0, Free_Fund_Initial |-> 1]

\* the options of the two select boxes of dialog_transfer
Endpoint(account, goal_id) == [account |-> account, goal_id |-> goal_id]

TransferSources(goals) ==
  {Endpoint(ACCOUNT_FREEFUND, ""), Endpoint(ACCOUNT_BACKUP, "")}
  \cup {Endpoint(ACCOUNT_SAVING, g) : g \in ActiveGoals(goals)}

TransferTargets(goals) ==
  {Endpoint(ACCOUNT_WALLET, ""), Endpoint(ACCOUNT_FREEFUND, ""),
   Endpoint(ACCOUNT_BACKUP, "")}
  \cup {Endpoint(ACCOUNT_SAVING, g) : g \in ActiveGoals(goals)}

\* the balance shown under the source select box
source_balance(txns, source) ==
  IF source.account = ACCOUNT_FREEFUND THEN get_free_fund_balance(txns)
  ELSE IF source.account = ACCOUNT_BACKUP THEN get_backup_balance(txns)
  ELSE get_saving_balance(txns, source.goal_id)

\* the validation of "確認轉帳"
transfer_valid(txns, source, target, amount) ==
  /\ ~(amount <= 0)
  /\ source # target
  /\ ~(amount > source_balance(txns, source))

\* goal_id = source_goal_id or target_goal_id
transfer_goal_id(source, target) ==
  IF source.goal_id # "" THEN source.goal_id ELSE target.goal_id

TransferReport(valid, source, target, amount) ==
  [op |-> "transfer", success |-> valid, pid |-> "", calls |-> <<>>,
   source |-> source, target |-> target, amount |-> amount]

DialogRoom(type) ==
  /\ Len(transactions) < MaxDialogLedger
  /\ Len(wallet_log) < MaxDialogWallet
  /\ CountRows(transactions, type) < MaxPerDialog
  /\ CountRows(wallet_log, type) < MaxPerDialog

\* dialog_transfer: "確認轉帳"
DialogTransfer(source, target, text, okTxn, okWallet) ==
  /\ ~ritual_active
  /\ DialogRoom(TYPE_TRANSFER)
  /\ source \in TransferSources(saving_goals)
  /\ target \in TransferTargets(saving_goals)
  /\ LET amount == parse_amount(text)
         valid == transfer_valid(transactions, source, target, amount)
     IN /\ IF ~valid
           THEN /\ okTxn /\ okWallet
                /\ UNCHANGED <<transactions, wallet_log>>
           ELSE IF target.account = ACCOUNT_WALLET
           THEN /\ transactions' = add_transaction(transactions,
                     Txn(TYPE_TRANSFER, amount, source.account, "", source.goal_id,
                         ACCOUNT_WALLET, "", ""), okTxn)
                /\ wallet_log' = add_wallet_log(wallet_log,
                     WalletRow(WALLET_TRANSFER_IN, amount, ""), okWallet)
           ELSE /\ okWallet
                /\ transactions' = add_transaction(transactions,
                     Txn(TYPE_TRANSFER, amount, source.account, "",
                         transfer_goal_id(source, target), target.account, "", ""),
                     okTxn)
                /\ UNCHANGED wallet_log
        /\ last' = TransferReport(valid, source, target, amount)
  /\ Raise((IF okTxn THEN 0 ELSE 1) + (IF okWallet THEN 0 ELSE 1))
  /\ UNCHANGED <<periods, settlement_log, categories, saving_goals, config, today,
                 ritual_active, ritual_step, ritual_data>>
  /\ load_all_data(/\ transfer_valid(transactions, source, target,
                                     parse_amount(text))
                   /\ (okTxn \/ (target.account = ACCOUNT_WALLET /\ okWallet)))
  /\ Stamp

\* what "確認校正" was pressed with, and whether a correction was recorded
AdjustReport(success, text, actual) ==
  [op |-> "adjust", success |-> success, pid |-> "", calls |-> <<>>,
   entered |-> text # <<>>, actual |-> actual]

\* the correction putting the typed balance in place of the Wallet_Log rows
DialogAdjustment_overwriting(text, ok) ==
  /\ ~ritual_active
  /\ LET actual == parse_amount(text)
         difference == actual - get_wallet_balance(wallet_log)
     IN IF text = <<>> \/ difference = 0
        THEN /\ ok
             /\ UNCHANGED wallet_log
             /\ last' = AdjustReport(FALSE, text, actual)
        ELSE /\ DialogRoom(WALLET_ADJUSTMENT)
             /\ wallet_log' = IF ok THEN << WalletRow(WALLET_ADJUSTMENT, actual, "") >>
                              ELSE wallet_log
             /\ last' = AdjustReport(ok, text, actual)
  /\ Raise(IF ok THEN 0 ELSE 1)
  /\ UNCHANGED <<periods, transactions, settlement_log, categories, saving_goals,
                 config, today, ritual_active, ritual_step, ritual_data>>
  /\ load_all_data(/\ text # <<>>
                   /\ parse_amount(text) # get_wallet_balance(wallet_log)
                   /\ ok)
  /\ Stamp

\* dialog_adjustment: "確認校正"
DialogAdjustment(text, ok) ==
  /\ ~ritual_active
  /\ LET actual == parse_amount(text)
         difference == actual - get_wallet_balance(wallet_log)
     IN IF text = <<>> \/ difference = 0
        THEN /\ ok
             /\ UNCHANGED wallet_log
             /\ last' = AdjustReport(FALSE, text, actual)
        ELSE /\ DialogRoom(WALLET_ADJUSTMENT)
             /\ wallet_log' = add_wallet_log(wallet_log,
                  WalletRow(WALLET_ADJUSTMENT, difference, ""), ok)
             /\ last' = AdjustReport(ok, text, actual)
  /\ Raise(IF ok THEN 0 ELSE 1)
  /\ UNCHANGED <<periods, transactions, settlement_log, categories, saving_goals,
                 config, today, ritual_active, ritual_step, ritual_data>>
  /\ load_all_data(/\ text # <<>>
                   /\ parse_amount(text) # get_wallet_balance(wallet_log)
                   /\ ok)
  /\ Stamp

\* dialog_saving_deposit: "存入"
DialogSavingDeposit(goal_id, text, ok) ==
  /\ ~ritual_active
  /\ DialogRoom(TYPE_SAVING_IN)
  /\ goal_id \in ActiveGoals(saving_goals)
  /\ LET amount == parse_amount(text)
     IN IF amount <= 0
        THEN /\ ok
             /\ UNCHANGED transactions
             /\ last' = Report("deposit", FALSE, "")
        ELSE /\ transactions' = add_transaction(transactions,
                  Txn(TYPE_SAVING_IN, amount, ACCOUNT_SAVING, "", goal_id, "", "", ""),
                  ok)
             /\ last' = Report("deposit", ok, "")
  /\ Raise(IF ok THEN 0 ELSE 1)
  /\ UNCHANGED <<periods, wallet_log, settlement_log, categories, saving_goals,
                 config, today, ritual_active, ritual_step, ritual_data>>
  /\ load_all_data(parse_amount(text) > 0 /\ ok)
  /\ Stamp

\* dialog_saving_withdraw: "支出", with a category chosen and an item typed
DialogSavingWithdraw(goal_id, category_id, text, ok) ==
  /\ ~ritual_active
  /\ DialogRoom(TYPE_SAVING_OUT)
  /\ goal_id \in ActiveGoals(saving_goals)
  /\ category_id \in ActiveCategories(categories)
  /\ LET amount == parse_amount(text)
     IN IF amount <= 0
        THEN /\ ok
             /\ UNCHANGED transactions
             /\ last' = Report("withdraw", FALSE, "")
        ELSE /\ transactions' = add_transaction(transactions,
                  Txn(TYPE_SAVING_OUT, amount, ACCOUNT_SAVING, category_id, goal_id,
                      "", "", ""), ok)
             /\ last' = Report("withdraw", ok, "")
  /\ Raise(IF ok THEN 0 ELSE 1)
  /\ UNCHANGED <<periods, wallet_log, settlement_log, categories, saving_goals,
                 config, today, ritual_active, ritual_step, ritual_data>>
  /\ load_all_data(parse_amount(text) > 0 /\ ok)
  /\ Stamp

\* ref=f"Goal_Complete_{goal_id}"
GoalCompleteRef(goal_id) ==
  IF goal_id = "g1" THEN "Goal_Complete_g1" ELSE "Goal_Complete_g2"

\* update_saving_goal_status(goal_id, "Completed")
update_saving_goal_status(goals, goal_id, status, ok) ==
  IF goal_id \in DOMAIN goals /\ ok
  THEN [goals EXCEPT ![goal_id].Status = status]
  ELSE goals

\* dialog_complete_goal: "確認完成".  ok1, ok2, ok3: the Settlement_In
\* append, the Saving_Out append and the status update go through; each
\* step is made only when the one before it succeeded.
DialogCompleteGoal(goal_id, text, ok1, ok2, ok3) ==
  /\ ~ritual_active
  /\ Len(transactions) + 2 <= MaxDialogLedger
  /\ CountRows(transactions, TYPE_SAVING_OUT) < MaxPerDialog
  /\ goal_id \in ActiveGoals(saving_goals)
  /\ LET current_balance == get_saving_balance(transactions, goal_id)
         amount == parse_amount(text)
         difference == current_balance - amount
     IN IF amount <= 0 \/ amount > current_balance
        THEN /\ ok1 /\ ok2 /\ ok3
             /\ UNCHANGED <<transactions, saving_goals>>
             /\ last' = Report("complete_goal", FALSE, "")
        ELSE LET success1 == IF difference > 0 THEN ok1 ELSE TRUE
                 txns1 == IF difference > 0
                          THEN add_transaction(transactions,
                                 Txn(TYPE_SETTLEMENT_IN, difference, ACCOUNT_FREEFUND,
                                     "", goal_id, "", GoalCompleteRef(goal_id), ""),
                                 ok1)
                          ELSE transactions
                 success2 == success1 /\ ok2
                 txns2 == IF success1
                          THEN add_transaction(txns1,
                                 Txn(TYPE_SAVING_OUT, amount, ACCOUNT_SAVING, "",
                                     goal_id, "", GoalCompleteRef(goal_id), ""), ok2)
                          ELSE txns1
                 success3 == success2 /\ ok3
             IN /\ (difference > 0 \/ ok1)
                /\ (success1 \/ ok2)
                /\ (success2 \/ ok3)
                /\ transactions' = txns2
                /\ saving_goals' =
                     IF success2
                     THEN update_saving_goal_status(saving_goals, goal_id,
                                                    "Completed", ok3)
                     ELSE saving_goals
                /\ last' = Report("complete_goal", success3, "")
  /\ Raise((IF ok1 THEN 0 ELSE 1) + (IF ok2 THEN 0 ELSE 1) + (IF ok3 THEN 0 ELSE 1))
  /\ UNCHANGED <<periods, wallet_log, settlement_log, categories, config, today,
                 ritual_active, ritual_step, ritual_data>>
  /\ LET current_balance == get_saving_balance(transactions, goal_id)
         amount == parse_amount(text)
     IN load_all_data(/\ amount > 0 /\ amount <= current_balance
                      /\ ((current_balance > amount /\ ok1) \/ ok2))
  /\ Stamp

\* every account / goal a select box of dialog_transfer may offer
Endpoints ==
  {Endpoint(a, "") : a \in {ACCOUNT_WALLET, ACCOUNT_FREEFUND, ACCOUNT_BACKUP}}
  \cup {Endpoint(ACCOUNT_SAVING, g) : g \in DialogGoalIds}

\* the sheets with one Active period, before any dialog is used
InitDialogs ==
  /\ periods = << PeriodRow("PER1", 0, 30, 2) >>
  /\ transactions = <<>>
  /\ wallet_log = <<>>
  /\ settlement_log = <<>>
  /\ categories = [c \in CategoryIds |-> [Budget |-> 2, Status |-> "Active"]]
  /\ saving_goals = [g \in DialogGoalIds |-> [Status |-> "Active"]]
  /\ config = DialogConfig
  /\ cache = Sheets
  /\ now = Len(wallet_log) + Len(transactions)
  /\ log_ids = [wallet_log |-> [i \in 1..Len(wallet_log) |-> Log_ID(i - 1)],
                transactions |->
                  [i \in 1..Len(transactions) |->
                     Transaction_ID(Len(wallet_log) + i - 1)]]
  /\ today = 0
  /\ ritual_active = FALSE
  /\ ritual_step = 1
  /\ ritual_data = EmptyData
  /\ faults = 0
  /\ last = Report("other", TRUE, "")

NextDialogs ==
  \/ \E text \in DialogTexts, ok \in BOOLEAN : DialogAdjustment(text, ok)
  \/ \E source \in Endpoints, target \in Endpoints, text \in DialogTexts,
        okTxn \in BOOLEAN, okWallet \in BOOLEAN :
        DialogTransfer(source, target, text, okTxn, okWallet)
  \/ \E g \in DialogGoalIds, text \in DepositTexts, ok \in BOOLEAN :
        DialogSavingDeposit(g, text, ok)
  \/ \E g \in DialogGoalIds, c \in CategoryIds, text \in DialogTexts, ok \in BOOLEAN :
        DialogSavingWithdraw(g, c, text, ok)
  \/ \E g \in DialogGoalIds, text \in CompleteTexts,
        ok1 \in BOOLEAN, ok2 \in BOOLEAN, ok3 \in BOOLEAN :
        DialogCompleteGoal(g, text, ok1, ok2, ok3)

SpecDialogs == InitDialogs /\ [][NextDialogs]_vars

\* ============================================================ properties
ActivePeriods(ps) == {i \in 1..Len(ps) : ps[i].Status = PERIOD_ACTIVE}

PeriodExists(ps, pid) == \E i \in 1..Len(ps) : ps[i].Period_ID = pid

PeriodIsSettled(ps, pid) ==
  \E i \in 1..Len(ps) : ps[i].Period_ID = pid /\ ps[i].Status = PERIOD_SETTLED

RecordsFor(slog, pid) == Len(SelectSeq(slog, LAMBDA r : r.Period_ID = pid))

CompEntriesFor(txns, pid) ==
  Len(SelectSeq(txns, LAMBDA r :
        r.Type \in {TYPE_SETTLEMENT_IN, TYPE_SETTLEMENT_OUT} /\ r.Ref = pid))

\* living_budget - sum of Expense(account = Living, period = pid)
NetOf(ps, txns, pid) ==
  LET rows == SelectSeq(ps, LAMBDA p : p.Period_ID = pid)
  IN Head(rows).Living_Budget
     - SumAmount(SelectSeq(txns, LAMBDA r : r.Type = TYPE_EXPENSE
                   /\ r.Account = ACCOUNT_LIVING /\ r.Period_ID = pid))

SettleReturned(report, success) == report.op = "settle" /\ report.success = success

\* the allocations the commit of step 4 works with
CommitL == ritual_data.living_budget
CommitS == SumOver(Step4Current(ritual_data, saving_goals), GoalOrder)
CommitB == ritual_data.backup_allocation
CommitW == get_wallet_balance(wallet_log)
CommitRemainder == CommitW - CommitL - CommitS - CommitB
CommitSweep == IF CommitRemainder > 0 THEN CommitRemainder ELSE 0

CommitDone == last'.op = "commit" /\ last'.success

\* C1: settle(P) called twice in a row, the first call reporting success:
\* the second call reports failure, and afterwards there is exactly one
\* SettlementRecord for P and at most one compensating entry with ref = P.
C1_SettleTwice ==
  [][(SettleReturned(last, TRUE) /\ last'.op = "settle" /\ last'.pid = last.pid)
       => /\ ~last'.success
          /\ RecordsFor(settlement_log', last.pid) = 1
          /\ CompEntriesFor(transactions', last.pid) <= 1]_vars

\* C2: in every reachable state at most one Period has status Active.
C2_AtMostOneActive == Cardinality(ActivePeriods(periods)) <= 1

\* C3: a completed commit during which no store call raised leaves the
\* Wallet at W - L - S - B - r with r = max(W - L - S - B, 0), that is at 0.
C3_WalletConservation ==
  [][(CommitDone /\ faults' = faults)
       => /\ get_wallet_balance(wallet_log')
               = CommitW - CommitL - CommitS - CommitB - CommitSweep
          /\ get_wallet_balance(wallet_log') = 0]_vars

\* C4: a settle(P) that reports success after a failed attempt on P leaves
\* exactly one SettlementRecord and at most one compensating entry for P.
C4_RetryConverges ==
  [][(SettleReturned(last, FALSE) /\ PeriodExists(periods, last.pid)
        /\ ~PeriodIsSettled(periods, last.pid)
        /\ last'.op = "settle" /\ last'.pid = last.pid /\ last'.success)
       => /\ RecordsFor(settlement_log', last.pid) = 1
          /\ CompEntriesFor(transactions', last.pid) <= 1]_vars

\* C5: settle(P) reports success only if the compensating entry (when
\* net # 0) and the SettlementRecord were appended and P is now Settled.
C5_SettleSuccessAllWritten ==
  [][(last'.op = "settle" /\ last'.success)
       => /\ PeriodIsSettled(periods', last'.pid)
          /\ RecordsFor(settlement_log', last'.pid)
               = RecordsFor(settlement_log, last'.pid) + 1
          /\ (NetOf(periods, transactions, last'.pid) # 0
                => CompEntriesFor(transactions', last'.pid)
                     = CompEntriesFor(transactions, last'.pid) + 1)]_vars

WalletRowsOf(ws) == SelectSeq(ws, LAMBDA w : w.kind = "wallet")
TxnRowsOf(ws) == SelectSeq(ws, LAMBDA w : w.kind = "txn")

\* C6: the commit clears the session and announces the new period only if
\* every write of steps 1-6 was applied.
C6_CommitSuccessAllWritten ==
  [][CommitDone
       => LET ws == CommitWrites(ritual_data, last'.pid)
          IN /\ Len(periods') = Len(periods) + 1
             /\ Len(wallet_log') = Len(wallet_log) + Len(WalletRowsOf(ws))
             /\ Len(transactions') = Len(transactions) + Len(TxnRowsOf(ws))
             /\ \A c \in DOMAIN ritual_data.category_budgets :
                   categories'[c].Budget = ritual_data.category_budgets[c]]_vars

\* C7: a settle(P) that reports success appends, by the sign of net,
\* exactly one Settlement_In(net, Free_Fund, ref = P), exactly one
\* Settlement_Out(|net|, Back_Up, ref = P), or nothing when net = 0, and a
\* SettlementRecord with the matching impact_account.
C7_SettlementBySign ==
  [][(last'.op = "settle" /\ last'.success)
       => LET pid == last'.pid
              net == NetOf(periods, transactions, pid)
              rec == settlement_log'[Len(settlement_log')]
          IN /\ net > 0 => transactions' = Append(transactions,
                   Txn(TYPE_SETTLEMENT_IN, net, ACCOUNT_FREEFUND, "", "", "", pid, ""))
             /\ net < 0 => transactions' = Append(transactions,
                   Txn(TYPE_SETTLEMENT_OUT, 0 - net, ACCOUNT_BACKUP, "", "", "", pid, ""))
             /\ net = 0 => transactions' = transactions
             /\ Len(settlement_log') = Len(settlement_log) + 1
             /\ rec.Period_ID = pid /\ rec.Net_Result = net
             /\ rec.Impact_Account = (IF net > 0 THEN ACCOUNT_FREEFUND
                                      ELSE IF net < 0 THEN ACCOUNT_BACKUP ELSE "")]_vars

\* C8: settle(P) on a period id that does not exist or whose status is
\* Settled reports failure and leaves the Ledger Log, the Settlement log
\* and every Period row as they were.
C8_RejectedSettleNoEffect ==
  [][(last'.op = "settle"
        /\ (~PeriodExists(periods, last'.pid) \/ PeriodIsSettled(periods, last'.pid)))
       => /\ ~last'.success
          /\ transactions' = transactions
          /\ settlement_log' = settlement_log
          /\ periods' = periods]_vars

\* a settle call on a Settled period has just been rejected
C8_Witness ==
  /\ SettleReturned(last, FALSE)
  /\ PeriodIsSettled(periods, last.pid)
  /\ RecordsFor(settlement_log, last.pid) = 1

\* rows only the commit writes
CommitLedgerRows(txns) ==
  SelectSeq(txns, LAMBDA r : r.Type # TYPE_EXPENSE /\ r.Period_ID # "")

\* C9: a Period, an Allocate_Out or a commit ledger entry is written, and
\* the commit runs at all, only from step 4 with living_budget > 0 and
\* Wallet - living_budget - saving allocations - Back_Up allocation >= 0.
C9_ValidationBeforeWrites ==
  [][(\/ last'.op = "commit"
      \/ Len(periods') # Len(periods)
      \/ CountRows(wallet_log', WALLET_ALLOCATE_OUT)
           # CountRows(wallet_log, WALLET_ALLOCATE_OUT)
      \/ CommitLedgerRows(transactions') # CommitLedgerRows(transactions))
       => /\ ritual_active /\ ritual_step = 4
          /\ CommitL > 0
          /\ CommitRemainder >= 0]_vars

\* a commit has run and written a period with its living allocation
C9_Witness ==
  /\ last.op = "commit" /\ last.success
  /\ PeriodExists(periods, last.pid)
  /\ \E i \in 1..Len(wallet_log) :
        wallet_log[i].Type = WALLET_ALLOCATE_OUT /\ wallet_log[i].Ref = last.pid

\* C10: after a completed commit during which no store call raised, every
\* saving goal has grown by its allocation (not at all when that is <= 0),
\* Back_Up by B, Free_Fund by the remainder r, the new period's Living
\* remaining is L, and these increases add up to the decrease of the Wallet.
C10_CommitEffects ==
  [][(CommitDone /\ faults' = faults)
       => LET alloc == Step4Current(ritual_data, saving_goals)
              up(g) == get_saving_balance(transactions', g)
                         - get_saving_balance(transactions, g)
              upBackup == get_backup_balance(transactions')
                            - get_backup_balance(transactions)
              upFree == get_free_fund_balance(transactions')
                          - get_free_fund_balance(transactions)
              living == get_living_remaining(periods', transactions', last'.pid)
          IN /\ \A g \in DOMAIN alloc :
                   up(g) = (IF alloc[g] > 0 THEN alloc[g] ELSE 0)
             /\ upBackup = CommitB
             /\ upFree = CommitSweep
             /\ living = CommitL
             /\ SumOver([g \in DOMAIN alloc |-> up(g)], GoalOrder) + upBackup
                  + upFree + living
                  = get_wallet_balance(wallet_log) - get_wallet_balance(wallet_log')]_vars

\* positions in a commit's call list
LogCalls(cs) == {i \in 1..Len(cs) : cs[i].kind \in {"wallet", "txn"}}
CatCalls(cs) == {i \in 1..Len(cs) : cs[i].kind = "cat"}

\* C11: a commit calls add_period first, then the living-budget
\* Allocate_Out (ref = the new period), then the other writes with each
\* Allocate_Out directly before its ledger entry, then the category budget
\* updates, and clears the session last; every ledger entry it appends
\* carries the new period's id.
C11_CommitOrdering ==
  (last.op = "commit" /\ last.success)
    => LET cs == last.calls
           n == Len(cs)
       IN /\ n >= 3
          /\ cs[1].kind = "period"
          /\ cs[n].kind = "end_ritual"
          /\ \A i \in 2..(n - 1) : cs[i].kind \in {"wallet", "txn", "cat"}
          /\ cs[2].kind = "wallet"
          /\ cs[2].row.Type = WALLET_ALLOCATE_OUT
          /\ cs[2].row.Ref = last.pid
          /\ cs[2].row.Amount = periods[get_period_by_id(periods, last.pid)].Living_Budget
          /\ \A i \in LogCalls(cs) : cs[i].kind = "txn"
                => /\ cs[i].row.Period_ID = last.pid
                   /\ i > 3
                   /\ cs[i - 1].kind = "wallet"
                   /\ cs[i - 1].row.Type = WALLET_ALLOCATE_OUT
                   /\ cs[i - 1].row.Amount = cs[i].row.Amount
          /\ \A i \in LogCalls(cs), j \in CatCalls(cs) : i < j

\* a commit that made a pair of writes and a category update
C11_Witness ==
  /\ last.op = "commit" /\ last.success
  /\ \E i \in LogCalls(last.calls) : last.calls[i].kind = "txn"
  /\ CatCalls(last.calls) # {}

\* the ledger grew by one row of this shape
LedgerAppended(P(_)) ==
  /\ Len(transactions') = Len(transactions) + 1
  /\ SubSeq(transactions', 1, Len(transactions)) = transactions
  /\ P(transactions'[Len(transactions')])

IsExpenseRow(r) == r.Type = TYPE_EXPENSE

IsTransferToWallet(r) == r.Type = TYPE_TRANSFER /\ r.Target_Account = ACCOUNT_WALLET

\* a step taken on page 2, 3 or 4 of the ritual other than the commit
StageStep == ritual_active /\ ritual_step \in 2..4 /\ last'.op # "commit"

\* C12 (as claimed): no step of stages 2-4 short of the commit changes the
\* Period sheet, the category budgets, the Wallet Log or the Ledger Log
\* (expenses recorded meanwhile on the expense tab aside).
C12_NoSideEffects ==
  [][StageStep
       => /\ periods' = periods
          /\ categories' = categories
          /\ wallet_log' = wallet_log
          /\ (transactions' = transactions \/ LedgerAppended(IsExpenseRow))]_vars

\* C12 (amended): stages 2 and 3, the inputs of stage 4 and the cancel
\* write nothing; the only writes of the workflow before the commit are
\* the stage-1 settlement and the stage-4 transfer into the Wallet, a
\* Transfer ledger entry and a Transfer_In wallet row that stay in place.
C12_OnlyTransferWrites ==
  [][/\ StageStep
          => /\ periods' = periods
             /\ categories' = categories
             /\ settlement_log' = settlement_log
             /\ \/ wallet_log' = wallet_log
                \/ /\ ritual_step = 4
                   /\ Len(wallet_log') = Len(wallet_log) + 1
                   /\ SubSeq(wallet_log', 1, Len(wallet_log)) = wallet_log
                   /\ wallet_log'[Len(wallet_log')].Type = WALLET_TRANSFER_IN
             /\ \/ transactions' = transactions
                \/ LedgerAppended(IsExpenseRow)
                \/ ritual_step = 4 /\ LedgerAppended(IsTransferToWallet)
     /\ (ritual_active /\ ~ritual_active' /\ last'.op # "commit")
          => UNCHANGED stores]_vars

\* a cancelled ritual whose stage-4 transfer and stage-1 settlement remain
C12_Witness ==
  /\ ~ritual_active
  /\ last.op = "other"
  /\ get_active_period(periods) = 0
  /\ Len(settlement_log) = 1
  /\ Len(periods) = 1
  /\ CountRows(wallet_log, WALLET_TRANSFER_IN) = 1
  /\ CountRows(transactions, TYPE_TRANSFER) = 1

\* C13: the wizard moves from step 1 to step 2 only when no Period is
\* Active afterwards, and a settle that reports failure leaves it at step 1.
C13_StageOneGate ==
  [][(ritual_active /\ ritual_step = 1)
       => /\ ritual_step' = 2 => ActivePeriods(periods') = {}
          /\ SettleReturned(last', FALSE) => ritual_step' = 1]_vars

\* C14: Period rows are never removed, and a row whose status is Settled
\* is never changed again: its status stays Settled and its id, dates,
\* living budget and settled_at stay as they are.
C14_SettledIsFinal ==
  [][/\ Len(periods') >= Len(periods)
     /\ \A i \in 1..Len(periods) :
          /\ periods'[i].Period_ID = periods[i].Period_ID
          /\ periods[i].Status = PERIOD_SETTLED => periods'[i] = periods[i]]_vars

\* a Settled period followed by the commit of the next period
C14_Witness ==
  /\ Len(periods) = 2
  /\ periods[1].Status = PERIOD_SETTLED
  /\ periods[1].Settled_At # ""
  /\ periods[2].Status = PERIOD_ACTIVE
  /\ last.op = "commit"

\* C15: a Period row has a non-empty settled_at exactly when its status is
\* Settled.
C15_SettledAtIffSettled ==
  \A i \in 1..Len(periods) :
     (periods[i].Settled_At # "") <=> (periods[i].Status = PERIOD_SETTLED)

\* C16: every Settled period has exactly one SettlementRecord, an Active
\* period has none, and the rows of the Settlement log never change.
C16_OneRecordPerSettled ==
  /\ [](\A i \in 1..Len(periods) :
          RecordsFor(settlement_log, periods[i].Period_ID)
            = (IF periods[i].Status = PERIOD_SETTLED THEN 1 ELSE 0))
  /\ [][/\ Len(settlement_log') >= Len(settlement_log)
        /\ SubSeq(settlement_log', 1, Len(settlement_log)) = settlement_log]_vars

RECURSIVE CountOf(_, _)
CountOf(rows, r) ==
  IF rows = <<>> THEN 0
  ELSE (IF Head(rows) = r THEN 1 ELSE 0) + CountOf(Tail(rows), r)

RowsOf(rows) == {rows[i] : i \in 1..Len(rows)}

\* the same multiset of records
SameRecords(a, b) ==
  /\ Len(a) = Len(b)
  /\ \A r \in RowsOf(a) \cup RowsOf(b) : CountOf(a, r) = CountOf(b, r)

\* C17: when the Wallet Log and the Ledger Log hold the same multiset of
\* records in another order, every derivation returns the same value.
C17_ReplayInvariance ==
  [][(SameRecords(wallet_log, wallet_log')
        /\ SameRecords(transactions, transactions') /\ periods' = periods)
       => Derivations(periods', wallet_log', transactions')
            = Derivations(periods, wallet_log, transactions)]_vars

\* two different rows of a log have just changed places
C17_Witness ==
  /\ last.op = "reorder"
  /\ Len(wallet_log) >= 2 /\ wallet_log[1] # wallet_log[2]
  /\ Len(transactions) = 2 /\ transactions[1] # transactions[2]

\* sum over a log of each row's signed contribution
SignedSum(rows, Sign(_)) ==
  LET f[i \in 0..Len(rows)] == IF i = 0 THEN 0 ELSE f[i - 1] + Sign(rows[i])
  IN f[Len(rows)]

WalletSign(r) ==
  CASE r.Type = WALLET_INCOME -> r.Amount
    [] r.Type = WALLET_ALLOCATE_OUT -> 0 - r.Amount
    [] r.Type = WALLET_TRANSFER_IN -> r.Amount
    [] r.Type = WALLET_ADJUSTMENT -> r.Amount
    [] OTHER -> 0

\* C18: the Wallet balance shown is sum(Income) - sum(Allocate_Out)
\* + sum(Transfer_In) + sum(Adjustment, signed) over the whole Wallet Log,
\* whatever the Ledger Log holds.
C18_WalletFormula ==
  last.op = "render" => last.shown.wallet = SignedSum(wallet_log, WalletSign)

\* balances drawn for a Wallet Log with a negative Adjustment, an
\* Allocate_Out and an Income, next to a non-empty Ledger Log
C18_Witness ==
  /\ last.op = "render"
  /\ \E i, j, k \in 1..Len(wallet_log) :
        /\ wallet_log[i].Type = WALLET_ADJUSTMENT /\ wallet_log[i].Amount < 0
        /\ wallet_log[j].Type = WALLET_ALLOCATE_OUT
        /\ wallet_log[k].Type = WALLET_INCOME
  /\ transactions # <<>>

BackupSign(r) ==
  (IF r.Type = TYPE_SETTLEMENT_OUT THEN 0 - r.Amount ELSE 0)
  + (IF r.Type = TYPE_TRANSFER /\ r.Target_Account = ACCOUNT_BACKUP
     THEN r.Amount ELSE 0)
  - (IF r.Type = TYPE_TRANSFER /\ r.Account = ACCOUNT_BACKUP THEN r.Amount ELSE 0)

\* C19: the Back_Up balance shown is Back_Up_Initial - sum(Settlement_Out)
\* + sum(Transfer to Back_Up) - sum(Transfer from Back_Up) over the whole
\* Ledger Log.
C19_BackupFormula ==
  last.op = "render"
    => last.shown.backup
         = config_initial(config, "Back_Up_Initial") + SignedSum(transactions, BackupSign)

\* balances drawn for a ledger with a Settlement_Out and a transfer out of
\* Back_Up
C19_Witness ==
  /\ last.op = "render"
  /\ \E i, j \in 1..Len(transactions) :
        /\ transactions[i].Type = TYPE_SETTLEMENT_OUT
        /\ transactions[j].Type = TYPE_TRANSFER
        /\ transactions[j].Account = ACCOUNT_BACKUP

FreeFundSign(r) ==
  (IF r.Type = TYPE_SETTLEMENT_IN THEN r.Amount ELSE 0)
  + (IF r.Type = TYPE_TRANSFER /\ r.Target_Account = ACCOUNT_FREEFUND
     THEN r.Amount ELSE 0)
  - (IF r.Type = TYPE_TRANSFER /\ r.Account = ACCOUNT_FREEFUND THEN r.Amount ELSE 0)

\* C20: the Free_Fund balance shown is Free_Fund_Initial + sum(Settlement_In)
\* + sum(Transfer to Free_Fund) - sum(Transfer from Free_Fund) over the
\* whole Ledger Log.
C20_FreeFundFormula ==
  last.op = "render"
    => last.shown.free_fund
         = config_initial(config, "Free_Fund_Initial") + SignedSum(transactions, FreeFundSign)

\* balances drawn for a ledger with a transfer into and a transfer out of
\* Free_Fund
C20_Witness ==
  /\ last.op = "render"
  /\ \E i, j \in 1..Len(transactions) :
        /\ transactions[i].Type = TYPE_TRANSFER
        /\ transactions[i].Target_Account = ACCOUNT_FREEFUND
        /\ transactions[j].Type = TYPE_TRANSFER
        /\ transactions[j].Account = ACCOUNT_FREEFUND


\* what a transfer of the dialog adds to the balance of goal g
TransferEffect(report, g) ==
  (IF report.target = Endpoint(ACCOUNT_SAVING, g) THEN report.amount ELSE 0)
  - (IF report.source = Endpoint(ACCOUNT_SAVING, g) THEN report.amount ELSE 0)

\* C21: the Saving balance of goal G is Saving_In(G) - Saving_Out(G)
\* - transfers out of goal G + transfers into goal G: a transfer made in the
\* transfer dialog (all store calls applied) takes its amount from the balance
\* of the goal it leaves, adds it to the balance of the goal it enters, and
\* leaves every other goal's balance as it was.
C21_SavingTransfers ==
  [][(last'.op = "transfer" /\ last'.success /\ faults' = faults)
     => \A g \in DialogGoalIds :
          get_saving_balance(transactions', g)
            = get_saving_balance(transactions, g) + TransferEffect(last', g)]_vars

\* what one ledger row takes from the Living remainder of period PER1
LivingSign(r) ==
  IF r.Type = TYPE_EXPENSE /\ r.Account = ACCOUNT_LIVING /\ r.Period_ID = "PER1"
  THEN r.Amount ELSE 0

\* C22: the Living remainder of a period is its living budget minus the sum
\* of the Expense rows with Account = Living and that Period_ID; rows of
\* other periods, other accounts or other types do not count, and the
\* remainder may be negative.
C22_LivingRemaining ==
  last.op = "render"
    => last.shown.living
         = periods[1].Living_Budget - SignedSum(transactions, LivingSign)

\* an overspent period shown next to an expense of another period
C22_Witness ==
  /\ last.op = "render"
  /\ last.shown.living < 0
  /\ \E i \in 1..Len(transactions) :
       transactions[i].Type = TYPE_EXPENSE /\ transactions[i].Period_ID # "PER1"

\* C23: the days left of a period, today included, are
\* max((end_date - today) + 1, 0): exactly 1 on the end date and 0 on every
\* later day; the daily allowance is the Living remainder divided by the
\* days left when at least one day is left, and the remainder itself when
\* none is left.
C23_DayArithmetic ==
  (last.op = "daily" /\ last.shown.known)
    => LET end_date == periods[1].End_Date
           shown == last.shown
       IN /\ shown.days_left
               = (IF end_date - today + 1 > 0 THEN end_date - today + 1 ELSE 0)
          /\ (today = end_date => shown.days_left = 1)
          /\ (today > end_date => shown.days_left = 0)
          /\ (shown.days_left >= 1
                => shown.daily = Ratio(shown.living, shown.days_left))
          /\ (shown.days_left = 0 => shown.daily = Ratio(shown.living, 1))

\* the allowance on the day after the end date, with the budget overspent
C23_Witness ==
  /\ last.op = "daily" /\ last.shown.known
  /\ today = periods[1].End_Date + 1
  /\ last.shown.days_left = 0
  /\ last.shown.daily.num < 0

\* the value the Config sheet gives for key, 0 when it has no such row
Configured(key) == IF key \in DOMAIN config THEN config[key] ELSE 0

\* C24: on empty input every derivation is its identity: the Wallet balance
\* is 0 on an empty Wallet_Log; on an empty ledger Back_Up and Free_Fund are
\* their configured initial values (0 without the Config row), the Saving
\* balance and the category spending are 0 and the Living remainder of a
\* period is its living budget; for an unknown period id the Living
\* remainder and the daily allowance are 0.
C24_EmptyIdentity ==
  last.op = "daily"
    => LET shown == last.shown
       IN /\ (wallet_log = <<>> => shown.wallet = 0)
          /\ (transactions = <<>>
                => /\ shown.backup = Configured("Back_Up_Initial")
                   /\ shown.free_fund = Configured("Free_Fund_Initial")
                   /\ shown.saving = 0
                   /\ shown.category = 0
                   /\ (shown.known => shown.living = periods[1].Living_Budget))
          /\ (~shown.known => shown.living = 0 /\ shown.daily = Ratio(0, 1))

\* both logs empty, a Config sheet with and without an initial balance,
\* and a period id the Period sheet does not hold
C24_Witness ==
  /\ last.op = "daily"
  /\ ~last.shown.known
  /\ wallet_log = <<>> /\ transactions = <<>>
  /\ "Back_Up_Initial" \notin DOMAIN config
  /\ "Free_Fund_Initial" \in DOMAIN config
  /\ last.shown.free_fund > 0

\* C25: every row appended to the ledger, by whichever handler and for
\* whatever text was typed, has Amount > 0, and every Transfer row has
\* Account # Target_Account.
C25_LedgerEntryInvariant ==
  \A i \in 1..Len(transactions) :
    /\ transactions[i].Amount > 0
    /\ (transactions[i].Type = TYPE_TRANSFER
          => transactions[i].Account # transactions[i].Target_Account)

\* C27: step 3 stores as living_budget the sum of the budgets typed for the
\* active categories, and the ritual goes from step 3 to step 4 only while
\* that sum is not 0, also when the Category sheet has no active category.
C27_StageThreeGate ==
  [][(ritual_active /\ ritual_step = 3 /\ ritual_step' = 4)
     => /\ ritual_data'.living_budget
             = SumOver(Step3Current(ritual_data', categories), CategoryOrder)
        /\ ritual_data'.living_budget # 0]_vars

C28_ReadYourWrites == cache = Sheets

\* a settlement and a commit have written to every sheet
C28_Witness ==
  /\ last.op = "commit" /\ last.success
  /\ settlement_log # <<>> /\ wallet_log # <<>> /\ transactions # <<>>
  /\ \E i \in 1..Len(periods) : periods[i].Status = PERIOD_SETTLED
  /\ \E c \in CategoryIds : categories[c].Budget > 0
  /\ cache.periods = periods /\ cache.categories = categories

IsPrefix(a, b) ==
  /\ Len(a) <= Len(b)
  /\ \A i \in 1..Len(a) : a[i] = b[i]

\* C29: the logs are append-only: after every operation the ledger and the
\* Wallet_Log each begin with what they held before it, no row being
\* changed or removed; a wallet correction is one new Adjustment row.
C29_AppendOnly ==
  [][/\ IsPrefix(transactions, transactions')
     /\ IsPrefix(wallet_log, wallet_log')
     /\ (last'.op = "adjust" /\ last'.success)
          => /\ Len(wallet_log') = Len(wallet_log) + 1
             /\ wallet_log'[Len(wallet_log')].Type = WALLET_ADJUSTMENT]_vars

\* a correction recorded after an earlier Wallet_Log row
C29_Witness ==
  /\ last.op = "adjust" /\ last.success
  /\ Len(wallet_log) = 2
  /\ wallet_log[1].Type = WALLET_TRANSFER_IN
  /\ wallet_log[2].Type = WALLET_ADJUSTMENT

\* C30: every record appended to a stream gets a fresh id: no two rows of the
\* Wallet Log share a Log_ID, no two rows of the Ledger Log share a
\* Transaction_ID and no two Periods share a Period_ID, also when one handler
\* makes several appends within the same second.
C30_FreshIds ==
  /\ \A i, j \in DOMAIN log_ids.wallet_log :
        i # j => log_ids.wallet_log[i] # log_ids.wallet_log[j]
  /\ \A i, j \in DOMAIN log_ids.transactions :
        i # j => log_ids.transactions[i] # log_ids.transactions[j]
  /\ \A i, j \in DOMAIN periods :
        i # j => periods[i].Period_ID # periods[j].Period_ID

\* the inputs a stage has collected so far
CollectedInputs(data) ==
  data.keys \cap {"start_date", "end_date", "category_budgets",
                  "saving_allocations", "backup_allocation"}

InputValue(data, key) ==
  CASE key = "start_date" -> data.start_date
    [] key = "end_date" -> data.end_date
    [] key = "category_budgets" -> data.category_budgets
    [] key = "saving_allocations" -> data.saving_allocations
    [] key = "backup_allocation" -> data.backup_allocation

SessionReset ==
  /\ ~ritual_active
  /\ ritual_step = 1
  /\ ritual_data = EmptyData

\* C31: while a ritual is in progress its step is one of 1..4 and a move
\* between steps keeps every collected input (dates, category budgets,
\* saving and Back_Up allocations); the session is reset (inactive, step 1,
\* no inputs) when and only when the ritual is cancelled or committed, and
\* empty when it is started.
C31_SessionPersistence ==
  [][/\ ritual_active => ritual_step \in 1..4
     /\ ~ritual_active => SessionReset
     /\ (ritual_active /\ ritual_active' /\ ritual_step' # ritual_step) =>
           \A key \in CollectedInputs(ritual_data) :
              /\ key \in CollectedInputs(ritual_data')
              /\ InputValue(ritual_data', key) = InputValue(ritual_data, key)
     /\ (ritual_active /\ ~ritual_active') =>
           /\ SessionReset'
           /\ \/ ritual_step = 1
              \/ last'.op = "commit" /\ last'.success
     /\ (ritual_active /\ last'.op = "commit" /\ last'.success) => SessionReset'
     /\ (~ritual_active /\ ritual_active') =>
           ritual_step' = 1 /\ ritual_data' = EmptyData]_vars

\* C32: the current-period query returns none (0) when no Period is Active;
\* otherwise it returns an Active Period after which no Period is Active,
\* i.e. the most recently created Active one, and never a Settled one.
C32_CurrentPeriod ==
  LET i == get_active_period(periods)
  IN IF \A j \in 1..Len(periods) : periods[j].Status # PERIOD_ACTIVE
     THEN i = 0
     ELSE /\ i \in 1..Len(periods)
          /\ periods[i].Status = PERIOD_ACTIVE
          /\ periods[i].Status # PERIOD_SETTLED
          /\ \A j \in (i + 1)..Len(periods) : periods[j].Status # PERIOD_ACTIVE

\* two Periods are Active and the query returns the later one
C32_Witness ==
  /\ Len(periods) = 2
  /\ periods[1].Status = PERIOD_ACTIVE
  /\ periods[2].Status = PERIOD_ACTIVE
  /\ get_active_period(periods) = 2

\* the commit button was pressed and add_period returned ""
PeriodCreationFailed ==
  /\ ritual_active /\ ritual_step = 4
  /\ last'.op = "commit" /\ ~last'.success
  /\ last'.calls = << [kind |-> "period"] >>

\* C33: when add_period fails at the start of complete_ritual the commit
\* stops: nothing is appended to the Wallet Log or the Ledger, no Period is
\* added, no category budget changes, and the ritual stays at step 4 with
\* all its collected inputs.
C33_PeriodFailureStops ==
  [][PeriodCreationFailed =>
       /\ UNCHANGED <<periods, wallet_log, transactions, categories>>
       /\ ritual_active' /\ ritual_step' = 4
       /\ ritual_data' = ritual_data]_vars

\* a commit with a positive living budget was stopped by add_period
C33_Witness ==
  /\ last.op = "commit" /\ ~last.success
  /\ last.calls = << [kind |-> "period"] >>
  /\ ritual_active /\ ritual_step = 4
  /\ ritual_data.living_budget > 0
  /\ faults = 1

\* the rows a step has appended to the Ledger
AppendedLedger ==
  IF IsPrefix(transactions, transactions')
  THEN SubSeq(transactions', Len(transactions) + 1, Len(transactions'))
  ELSE transactions'

\* Expense rows are appended only for the Active period, with its id and a
\* positive amount
ExpensesAttachToActive ==
  \A k \in DOMAIN AppendedLedger :
     LET r == AppendedLedger[k]
     IN r.Type = TYPE_EXPENSE =>
          /\ r.Amount > 0
          /\ get_active_period(periods) # 0
          /\ r.Period_ID = periods[get_active_period(periods)].Period_ID

\* the Living expense total of a Settled period stays what it is
SettledExpensesFrozen ==
  \A i \in DOMAIN periods :
     periods[i].Status = PERIOD_SETTLED =>
        SumAmount(LivingExpenses(transactions', periods[i].Period_ID))
          = SumAmount(LivingExpenses(transactions, periods[i].Period_ID))

\* every Settlement_Log row of a Settled period states the period's net
SettledRecordsExact ==
  \A i \in DOMAIN periods :
     periods[i].Status = PERIOD_SETTLED =>
        \A k \in DOMAIN settlement_log :
           LET rec == settlement_log[k]
           IN rec.Period_ID = periods[i].Period_ID =>
                /\ rec.Net_Result = rec.Planned_Budget - rec.Actual_Expense
                /\ rec.Net_Result = NetOf(periods, transactions, rec.Period_ID)

\* C34: an Expense is appended only when an Active period exists, with that
\* period's id and an amount > 0; so the Living expense total of a Settled
\* period never changes again and each of its settlement records keeps
\* net_result = planned_budget - actual_expense = living_budget - the sum of
\* its Living expenses, in every later state.
C34_ExpensesOnActivePeriod ==
  [][/\ ExpensesAttachToActive
     /\ SettledExpensesFrozen
     /\ SettledRecordsExact']_vars

\* the derived balance of one end of a transfer
EndpointBalance(wl, txns, e) ==
  IF e.account = ACCOUNT_WALLET THEN get_wallet_balance(wl)
  ELSE source_balance(txns, e)

\* C35: a transfer of amount a made in the transfer dialog (all store calls
\* applied) lowers the derived balance of its source by exactly a and raises
\* the derived balance of its destination by exactly a, for every pair the
\* dialog allows, a pair of two different saving goals included.
C35_TransferBothEnds ==
  [][(last'.op = "transfer" /\ last'.success /\ faults' = faults)
     => /\ EndpointBalance(wallet_log', transactions', last'.source)
             = EndpointBalance(wallet_log, transactions, last'.source)
                 - last'.amount
        /\ EndpointBalance(wallet_log', transactions', last'.target)
             = EndpointBalance(wallet_log, transactions, last'.target)
                 + last'.amount]_vars

\* C36: completing a goal that holds b with an actual expense x, 0 < x <= b
\* (all store calls applied), leaves the goal with a derived Saving balance
\* of 0, raises Free_Fund by exactly b - x and sets the goal's Status to
\* Completed; with x <= 0 or x > b the dialog writes nothing.
C36_GoalCompletion ==
  [][(last'.op = "complete_goal" /\ faults' = faults)
     => IF last'.success
        THEN \E g \in DialogGoalIds :
               LET b == get_saving_balance(transactions, g)
                   x == transactions'[Len(transactions')].Amount
               IN /\ saving_goals[g].Status = "Active"
                  /\ saving_goals'[g].Status = "Completed"
                  /\ 0 < x /\ x <= b
                  /\ get_saving_balance(transactions', g) = 0
                  /\ get_free_fund_balance(transactions')
                       = get_free_fund_balance(transactions) + (b - x)
        ELSE UNCHANGED <<transactions, wallet_log, saving_goals>>]_vars

\* the account or goal a Transfer row takes its amount from
TransferSourceOf(r) ==
  Endpoint(r.Account, IF r.Account = ACCOUNT_SAVING THEN r.Goal_ID ELSE "")

\* C37: no transfer overdraws its source: every Transfer row appended to the
\* Ledger that leaves Free_Fund, Back_Up or a saving goal, by the transfer
\* dialog or by the quick transfer of step 4, has an amount not above the
\* derived balance its source had at that moment.
C37_NoOverdraw ==
  [][\A k \in DOMAIN AppendedLedger :
       LET r == AppendedLedger[k]
       IN (r.Type = TYPE_TRANSFER
           /\ r.Account \in {ACCOUNT_FREEFUND, ACCOUNT_BACKUP, ACCOUNT_SAVING})
          => r.Amount <= EndpointBalance(wallet_log, transactions,
                                         TransferSourceOf(r))]_vars

AmountsOf(rows) == {rows[k].Amount : k \in DOMAIN rows}

\* Wallet_Log rows of one type, reference and amount
WalletCount(type, ref, a) ==
  Len(SelectSeq(wallet_log, LAMBDA w : w.Type = type /\ w.Amount = a
                                        /\ (ref = "*" \/ w.Ref = ref)))

\* Transfer rows into the Wallet <-> Transfer_In rows, amount by amount
TransfersPaired ==
  \A a \in AmountsOf(transactions) \cup AmountsOf(wallet_log) :
     Len(SelectSeq(transactions, LAMBDA r :
           r.Type = TYPE_TRANSFER /\ r.Target_Account = ACCOUNT_WALLET
           /\ r.Amount = a))
       = WalletCount(WALLET_TRANSFER_IN, "*", a)

\* ledger rows of the commits <-> Allocate_Out rows, amount by amount: a
\* Saving_In with the goal as reference, the Back_Up transfer with
\* "Back_Up", the remainder with the period (whose Living allocation has
\* an Allocate_Out of its own under the same reference)
CommitEntriesPaired ==
  \A a \in AmountsOf(transactions) :
     /\ \A g \in GoalIds :
           Len(SelectSeq(transactions, LAMBDA r :
                 r.Type = TYPE_SAVING_IN /\ r.Goal_ID = g /\ r.Period_ID # ""
                 /\ r.Amount = a))
             = WalletCount(WALLET_ALLOCATE_OUT, g, a)
     /\ Len(SelectSeq(transactions, LAMBDA r :
               r.Type = TYPE_TRANSFER /\ r.Account = ACCOUNT_WALLET
               /\ r.Target_Account = ACCOUNT_BACKUP /\ r.Amount = a))
           = WalletCount(WALLET_ALLOCATE_OUT, "Back_Up", a)
     /\ \A p \in KnownPeriodIds :
           LET remainder == Len(SelectSeq(transactions, LAMBDA r :
                                  r.Type = TYPE_SETTLEMENT_IN /\ r.Ref = ""
                                  /\ r.Period_ID = p /\ r.Amount = a))
               out == WalletCount(WALLET_ALLOCATE_OUT, p, a)
           IN remainder <= out /\ out <= remainder + 1

\* C38: in every state, also after a store call failed between two writes,
\* each Ledger Transfer into the Wallet has exactly one Wallet_Log
\* Transfer_In of the same amount and the other way round, and each ledger
\* entry of a commit (Saving_In, Transfer Wallet -> Back_Up, remainder
\* Settlement_In) has exactly one Allocate_Out of the same amount.
C38_LedgerWalletPairing ==
  /\ TransfersPaired
  /\ CommitEntriesPaired

\* C39: the net projected in step 1 (living budget minus the spending of
\* the Active categories in the period) is the net settle_period computes
\* and records for the same period and ledger (living budget minus the
\* Expense rows with Account = Living of the period).
C39_PreviewIsSettledNet ==
  [][(/\ ritual_active /\ ritual_step = 1
      /\ last'.op = "settle" /\ last'.success
      /\ Len(settlement_log') = Len(settlement_log) + 1)
     => LET preview == settlement_preview(periods, transactions, categories,
                                          last'.pid)
            rec == settlement_log'[Len(settlement_log')]
        IN /\ rec.Period_ID = last'.pid
           /\ preview.budget = rec.Planned_Budget
           /\ preview.spent = rec.Actual_Expense
           /\ preview.net_result = rec.Net_Result]_vars

\* C40: confirming a wallet correction with the actual balance X (the store
\* call applied) appends exactly one Adjustment of X - the derived Wallet
\* balance when that difference is not 0, after which the derived Wallet
\* balance is X; confirming the same X again appends nothing.
C40_WalletCorrection ==
  [][(last'.op = "adjust" /\ faults' = faults)
     => LET X == last'.actual
            difference == X - get_wallet_balance(wallet_log)
        IN /\ IF last'.entered /\ difference # 0
              THEN /\ last'.success
                   /\ wallet_log' = Append(wallet_log,
                         WalletRow(WALLET_ADJUSTMENT, difference, ""))
                   /\ get_wallet_balance(wallet_log') = X
              ELSE /\ ~last'.success
                   /\ wallet_log' = wallet_log
           /\ (last.op = "adjust" /\ last.success /\ last'.entered
                /\ last.actual = X)
                => wallet_log' = wallet_log]_vars

\* the same balance was confirmed again after a recorded correction
C40_Witness ==
  /\ last.op = "adjust" /\ ~last.success /\ last.entered
  /\ last.actual = get_wallet_balance(wallet_log)
  /\ Len(wallet_log) = 2
  /\ wallet_log[1].Type = WALLET_TRANSFER_IN
  /\ wallet_log[2] = WalletRow(WALLET_ADJUSTMENT,
                                last.actual - wallet_log[1].Amount, "")

====
